---------------------------- MODULE Spec2Model ----------------------------
(***************************************************************************)
(* A model of epgrab, a DVB-T EPG grabber (src/src/*.rs).                  *)
(*                                                                         *)
(* Byte buffers are sequences of naturals in 0..255.  Rust slices are      *)
(* 0-based and half-open; At and Slice below keep the source's indices.    *)
(* A Rust String is modelled in one of two ways:                           *)
(*   - the result of the DVB text decoder is a sequence of Unicode code    *)
(*     points (naturals);                                                  *)
(*   - the text of etc/channels.conf is a sequence of symbols, each a      *)
(*     TLA+ string: one character (":", "#", " ", a digit, a line feed     *)
(*     written "LF", ...) or a whole word such as "FEC_AUTO" standing for  *)
(*     its characters, none of which is a separator, white space or "#"    *)
(*     and at least one of which is no digit.                              *)
(* A panic of the program (index out of range, arithmetic overflow in a    *)
(* checked build, slice out of range in an unchecked one) is an outcome of *)
(* its own, "panic".                                                       *)
(***************************************************************************)
EXTENDS Integers, Sequences, FiniteSets, TLC

VARIABLES
    \* --- one call of a pure function ---
    called,         \* the function applied, "none" before the call
    arg,            \* <<its argument>>, <<>> before the call
    ret,            \* <<its result>>, <<>> before the call
    \* --- the build ---
    overflow_checks, \* TRUE: integer overflow panics (debug profile)
    \* --- EitReader::read_events ---
    eit_pc,         \* "idle", "loop" (head of the loop), "poll", "read", "returned"
    timeout_secs,   \* the argument of read_events
    elapsed,        \* start.elapsed() in ms
    seen_sections,  \* set of <<service_id, table_id, section_number>>
    seen_events,    \* set of <<service_id, event_id>>
    all_events,     \* the events pushed, in the order pushed
    dropped,        \* how many events seen_events.insert refused
    eit_result,     \* <<>> before the return, then <<the outcome>>
    \* --- Tuner::tune ---
    tune_pc,        \* "idle", "clear", "props", "poll", "returned"
    tune_channel,   \* <<the Channel tuned to>>
    reads,          \* status reads done by the poll loop
    lock_reads,     \* those whose status had FE_HAS_LOCK
    slept_ms,       \* time slept by the poll loop
    last_status,    \* the status read last
    fe_log,         \* the open of the frontend and the batches submitted to it
    tune_result,    \* "" before the return, then the outcome
    \* --- the demux ---
    feed,           \* PID -> the buffers a read of a filter on it may return
    demux_open,     \* open handles of the demux device
    \* --- read_all_sections ---
    ras_pc,         \* "idle", "open", "loop", "poll", "read", "returned"
    ras_table_id,   \* the argument table_id
    ras_pid,        \* the argument pid
    ras_elapsed,    \* start.elapsed() in ms
    ras_sections,   \* `sections`, a set of <<section_number, buffer>>
    expected_last,  \* <<>> for None, <<n>> for Some(n)
    ras_exit,       \* how the loop ended: "deadline", "complete", ...
    ras_result,     \* [kind, sections], kind "" before the return
    \* --- scan_frequency ---
    scan_pc,        \* "idle", "pat", "sdt", "pmt", "returned"
    scan_entry,     \* <<the ScanEntry>>
    pat_sections,   \* what the PAT read returned
    pat_entries,
    sdt_read,       \* the outcome of the SDT read, "" before it
    sdt_services,
    pmt_reads,      \* the outcome of the PMT read of each channel pushed
    scan_channels,  \* `channels`
    scan_result,    \* [kind, channels], kind "" before the return
    \* --- cmd_scan_channels ---
    main_pc,        \* "idle", "loop", "tune", "scan", "exit"
    scan_entries,   \* `entries`, what parse_scan_file returned
    entry_index,    \* entries visited so far
    all_channels,
    written,        \* the content written to etc/channels.conf, <<>> if none
    main_exit,      \* "" while it runs, then how it ended
    tuned,          \* the frequency of each call of tune, in order
    visits          \* for each entry visited, [outcome, channels]

fnVars == <<called, arg, ret>>

eitVars == <<eit_pc, timeout_secs, elapsed, seen_sections, seen_events,
             all_events, dropped, eit_result>>

tuneVars == <<tune_pc, tune_channel, reads, lock_reads, slept_ms, last_status,
              fe_log, tune_result>>

envVars == <<overflow_checks, feed>>

rasVars == <<demux_open, ras_pc, ras_table_id, ras_pid, ras_elapsed,
             ras_sections, expected_last, ras_exit, ras_result>>

scanVars == <<scan_pc, scan_entry, pat_sections, pat_entries, sdt_read,
              sdt_services, pmt_reads, scan_channels, scan_result>>

mainVars == <<main_pc, scan_entries, entry_index, all_channels, written,
              main_exit, tuned, visits>>

vars == <<called, arg, ret, overflow_checks, eit_pc, timeout_secs, elapsed,
          seen_sections, seen_events, all_events, dropped, eit_result,
          tune_pc, tune_channel, reads, lock_reads, slept_ms, last_status,
          fe_log, tune_result, feed, demux_open, ras_pc, ras_table_id,
          ras_pid, ras_elapsed, ras_sections, expected_last, ras_exit,
          ras_result,
          scan_pc, scan_entry, pat_sections, pat_entries, sdt_read,
          sdt_services, pmt_reads, scan_channels, scan_result,
          main_pc, scan_entries, entry_index, all_channels, written,
          main_exit, tuned, visits>>

----------------------------------------------------------------------------
(* Helpers for slices, bytes and sequences.                                *)

At(s, i) == s[i + 1]

Slice(s, a, b) == SubSeq(s, a + 1, b)

SliceFrom(s, a) == SubSeq(s, a + 1, Len(s))

Min(a, b) == IF a < b THEN a ELSE b

RECURSIVE Flatten(_)
Flatten(ss) == IF ss = <<>> THEN <<>> ELSE Head(ss) \o Flatten(Tail(ss))

U16(hi, lo) == hi * 256 + lo

\* (((hi & 0x0F) as usize) << 8) | lo as usize
Len12(hi, lo) == (hi % 16) * 256 + lo

----------------------------------------------------------------------------
(* eit.rs: time codec.                                                     *)

bcd_to_u8(bcd) == (((bcd \div 16) * 10) + (bcd % 16)) % 256

decode_start_time(data) ==
    LET mjd   == U16(At(data, 0), At(data, 1))
        epoch == (mjd - 40587) * 86400
    IN  epoch + bcd_to_u8(At(data, 2)) * 3600
              + bcd_to_u8(At(data, 3)) * 60
              + bcd_to_u8(At(data, 4))

decode_duration(data) ==
    bcd_to_u8(At(data, 0)) * 3600
  + bcd_to_u8(At(data, 1)) * 60
  + bcd_to_u8(At(data, 2))

----------------------------------------------------------------------------
(* eit.rs: DVB text decoder.  String::from_utf16_lossy and                 *)
(* String::from_utf8_lossy are the standard library's: an unpaired         *)
(* surrogate, and each maximal ill-formed UTF-8 subsequence, becomes       *)
(* U+FFFD (65533).                                                         *)

REPLACEMENT == 65533

\* data.chunks_exact(2).map(|c| u16::from_be_bytes([c[0], c[1]]))
chunks_exact_be16(bytes) ==
    [i \in 1..(Len(bytes) \div 2) |-> U16(bytes[2 * i - 1], bytes[2 * i])]

RECURSIVE from_utf16_lossy(_)
from_utf16_lossy(units) ==
    IF units = <<>> THEN <<>>
    ELSE LET u == Head(units) IN
         IF /\ u \in 55296..56319
            /\ Len(units) >= 2
            /\ units[2] \in 56320..57343
         THEN <<65536 + (u - 55296) * 1024 + (units[2] - 56320)>>
                  \o from_utf16_lossy(Tail(Tail(units)))
         ELSE IF u \in 55296..57343
              THEN <<REPLACEMENT>> \o from_utf16_lossy(Tail(units))
              ELSE <<u>> \o from_utf16_lossy(Tail(units))

IsCont(b) == b \in 128..191

\* The second byte a lead byte admits (Unicode table 3-7).
SecondOk(lead, b) ==
    CASE lead = 224 -> b \in 160..191
      [] lead = 237 -> b \in 128..159
      [] lead = 240 -> b \in 144..191
      [] lead = 244 -> b \in 128..143
      [] OTHER      -> IsCont(b)

\* The length of the sequence a lead byte announces, 0 for no lead byte.
Utf8Width(b) ==
    CASE b < 128          -> 1
      [] b \in 194..223   -> 2
      [] b \in 224..239   -> 3
      [] b \in 240..244   -> 4
      [] OTHER            -> 0

RECURSIVE from_utf8_lossy(_)
from_utf8_lossy(bytes) ==
    IF bytes = <<>> THEN <<>>
    ELSE
      LET b == bytes[1]
          w == Utf8Width(b)
          n == Len(bytes)
          rest(k) == from_utf8_lossy(SubSeq(bytes, k + 1, n))
      IN
      CASE w = 1 -> <<b>> \o rest(1)
        [] w = 0 -> <<REPLACEMENT>> \o rest(1)
        [] w = 2 ->
             IF n >= 2 /\ IsCont(bytes[2])
             THEN <<(b % 32) * 64 + (bytes[2] % 64)>> \o rest(2)
             ELSE <<REPLACEMENT>> \o rest(1)
        [] w = 3 ->
             IF ~(n >= 2 /\ SecondOk(b, bytes[2]))
             THEN <<REPLACEMENT>> \o rest(1)
             ELSE IF ~(n >= 3 /\ IsCont(bytes[3]))
             THEN <<REPLACEMENT>> \o rest(2)
             ELSE <<(b % 16) * 4096 + (bytes[2] % 64) * 64 + (bytes[3] % 64)>>
                      \o rest(3)
        [] w = 4 ->
             IF ~(n >= 2 /\ SecondOk(b, bytes[2]))
             THEN <<REPLACEMENT>> \o rest(1)
             ELSE IF ~(n >= 3 /\ IsCont(bytes[3]))
             THEN <<REPLACEMENT>> \o rest(2)
             ELSE IF ~(n >= 4 /\ IsCont(bytes[4]))
             THEN <<REPLACEMENT>> \o rest(3)
             ELSE <<(b % 8) * 262144 + (bytes[2] % 64) * 4096
                       + (bytes[3] % 64) * 64 + (bytes[4] % 64)>> \o rest(4)

\* The match on data[0]: the text before the control characters are removed.
decode_raw(data) ==
    LET sel == At(data, 0) IN
    CASE sel = 20  -> IF Len(data) < 3 THEN <<>>
                      ELSE from_utf16_lossy(chunks_exact_be16(SliceFrom(data, 1)))
      [] sel = 21  -> from_utf8_lossy(SliceFrom(data, 1))
      [] sel = 17  -> IF Len(data) < 3 THEN <<>>
                      ELSE from_utf16_lossy(chunks_exact_be16(SliceFrom(data, 1)))
      [] sel = 16  -> IF Len(data) > 3 THEN from_utf8_lossy(SliceFrom(data, 3))
                      ELSE <<>>
      [] sel \in 1..5     -> from_utf8_lossy(SliceFrom(data, 1))
      [] sel \in 32..255  -> from_utf8_lossy(data)
      [] OTHER     -> <<>>

\* The closure given to raw.retain: TRUE for a code point that is kept.
retain_keep_mut(cp) ==
    IF cp = 10 THEN TRUE
    ELSE IF cp <= 31 \/ cp = 127 \/ cp \in 128..159 THEN FALSE
    ELSE TRUE

retain_keep(cp) ==
    IF cp = 10 THEN TRUE
    ELSE IF cp <= 31 \/ cp = 127 \/ cp \in 128..159 THEN FALSE
    ELSE IF cp \in 57472..57503 THEN FALSE
    ELSE TRUE

decode_dvb_text(data) ==
    IF data = <<>> THEN <<>>
    ELSE SelectSeq(decode_raw(data), retain_keep)

----------------------------------------------------------------------------
(* eit.rs: event and section parsers.                                      *)

SHORT_EVENT_DESCRIPTOR == 77

parse_short_event_descriptor(data) ==
    IF Len(data) < 5
    THEN [language |-> <<>>, event_name |-> <<>>, description |-> <<>>]
    ELSE
      LET language == from_utf8_lossy(Slice(data, 0, 3))
          name_len == At(data, 3)
      IN
      IF Len(data) < 4 + name_len + 1
      THEN [language |-> language, event_name |-> <<>>, description |-> <<>>]
      ELSE
        LET event_name  == decode_dvb_text(Slice(data, 4, 4 + name_len))
            text_offset == 4 + name_len
            text_len    == At(data, text_offset)
            description ==
                IF Len(data) >= text_offset + 1 + text_len
                THEN decode_dvb_text(
                         Slice(data, text_offset + 1, text_offset + 1 + text_len))
                ELSE <<>>
        IN [language |-> language, event_name |-> event_name,
            description |-> description]

NoText == [language |-> <<>>, event_name |-> <<>>, description |-> <<>>]

\* The descriptor loop of parse_eit_event: the texts of the last short event
\* descriptor that fits, starting from `txt`.
RECURSIVE walk_descriptors(_, _, _)
walk_descriptors(desc_data, pos, txt) ==
    IF ~(pos + 2 <= Len(desc_data)) THEN txt
    ELSE
      LET tag == At(desc_data, pos)
          len == At(desc_data, pos + 1)
      IN
      IF pos + 2 + len > Len(desc_data) THEN txt
      ELSE walk_descriptors(
               desc_data, pos + 2 + len,
               IF tag = SHORT_EVENT_DESCRIPTOR
               THEN parse_short_event_descriptor(
                        Slice(desc_data, pos + 2, pos + 2 + len))
               ELSE txt)

\* The sanity check of parse_eit_event: TRUE for an event that is rejected.
unreasonable_mut(duration, start_time) == duration > 86400

unreasonable(duration, start_time) == duration > 86400 \/ start_time < 0

parse_eit_event(data, service_id) ==
    IF Len(data) < 12 THEN [ok |-> FALSE, err |-> "too_short"]
    ELSE
      LET event_id   == U16(At(data, 0), At(data, 1))
          start_time == decode_start_time(Slice(data, 2, 7))
          duration   == decode_duration(Slice(data, 7, 10))
          running_status     == (At(data, 10) \div 32) % 8
          descriptors_length == Len12(At(data, 10), At(data, 11))
          total_len  == 12 + descriptors_length
      IN
      IF total_len > Len(data) THEN [ok |-> FALSE, err |-> "truncated"]
      ELSE IF unreasonable(duration, start_time)
      THEN [ok |-> FALSE, err |-> "unreasonable"]
      ELSE
        LET txt == walk_descriptors(
                       Slice(data, 12, 12 + descriptors_length), 0, NoText)
        IN [ok |-> TRUE,
            event |-> [service_id     |-> service_id,
                       event_id       |-> event_id,
                       start_time     |-> start_time,
                       duration       |-> duration,
                       running_status |-> running_status,
                       event_name     |-> txt.event_name,
                       description    |-> txt.description,
                       language       |-> txt.language],
            consumed |-> total_len]

event_err_mut(events) == <<>>

\* Err(e) => { eprintln!(..); break; }: the loop ends with the events pushed
\* so far.
event_err(events) == events

\* The while loop of parse_eit_section from `pos` on: the events parsed
\* before the end of the event area or the first event that fails.
RECURSIVE parse_events(_, _, _, _, _)
parse_events(buf, pos, events_end, service_id, events) ==
    IF ~(pos < events_end) THEN events
    ELSE LET r == parse_eit_event(Slice(buf, pos, events_end), service_id) IN
         IF r.ok
         THEN parse_events(buf, pos + r.consumed, events_end, service_id,
                           Append(events, r.event))
         ELSE event_err(events)

EIT_PRESENT_FOLLOWING_ACTUAL == 78

EIT_SCHEDULE_ACTUAL_MIN == 80

EIT_SCHEDULE_ACTUAL_MAX == 95

\* `checked`: the build panics on integer overflow.  With section_length 0,
\* section_end - 4 underflows: a panic there in a checked build; in an
\* unchecked one events_end wraps to 2^64 - 1 and &buf[14..events_end]
\* panics, unless the check on last_section_number returned before.
parse_eit_section(buf, checked) ==
    IF Len(buf) < 18 THEN [kind |-> "err", err |-> "too_short", events |-> <<>>]
    ELSE
      LET table_id       == At(buf, 0)
          section_length == Len12(At(buf, 1), At(buf, 2))
          service_id     == U16(At(buf, 3), At(buf, 4))
          section_end    == 3 + section_length
          events_end     == section_end - 4
          last_section_number == At(buf, 7)
      IN
      IF Len(buf) < section_end
      THEN [kind |-> "err", err |-> "truncated", events |-> <<>>]
      ELSE IF section_end < 4 /\ checked
      THEN [kind |-> "panic", err |-> "overflow", events |-> <<>>]
      ELSE IF table_id = EIT_PRESENT_FOLLOWING_ACTUAL /\ last_section_number > 1
      THEN [kind |-> "err", err |-> "corrupted", events |-> <<>>]
      ELSE IF section_end < 4
      THEN [kind |-> "panic", err |-> "slice", events |-> <<>>]
      ELSE [kind |-> "ok", err |-> "",
            events |-> parse_events(buf, 14, events_end, service_id, <<>>)]

\* sort_by_key(|e| e.start_time), a stable sort: `e` goes behind the events
\* of `sorted` whose start_time is not greater.
RECURSIVE insert_by_key(_, _)
insert_by_key(sorted, e) ==
    IF sorted = <<>> THEN <<e>>
    ELSE LET last == sorted[Len(sorted)] IN
         IF last.start_time <= e.start_time THEN Append(sorted, e)
         ELSE Append(insert_by_key(SubSeq(sorted, 1, Len(sorted) - 1), e), last)

RECURSIVE sorted_by_key(_)
sorted_by_key(events) ==
    IF events = <<>> THEN <<>>
    ELSE insert_by_key(sorted_by_key(SubSeq(events, 1, Len(events) - 1)),
                       events[Len(events)])

sort_by_key_mut(events) == events

\* A sort that is not stable: events of one start_time come out in the
\* reverse of their order.
sort_unstable_by_key(events) ==
    sorted_by_key([i \in 1..Len(events) |-> events[Len(events) + 1 - i]])

sort_by_key(events) == sorted_by_key(events)

\* The for loop over the events of one parsed section: seen_events.insert
\* and all_events.push.  st = [seen, all, dropped].
RECURSIVE collect_events(_, _)
collect_events(events, st) ==
    IF events = <<>> THEN st
    ELSE LET event     == Head(events)
             event_key == <<event.service_id, event.event_id>>
         IN  collect_events(
                 Tail(events),
                 IF event_key \notin st.seen
                 THEN [seen    |-> st.seen \cup {event_key},
                       all     |-> Append(st.all, event),
                       dropped |-> st.dropped]
                 ELSE [st EXCEPT !.dropped = @ + 1])

----------------------------------------------------------------------------
(* channel.rs and main.rs: the channel table etc/channels.conf.  A text is *)
(* a sequence of symbols (see the head of the module).                     *)

Digits == <<"0", "1", "2", "3", "4", "5", "6", "7", "8", "9">>

IsDigit(sym) == \E d \in 1..10 : Digits[d] = sym

DigitVal(sym) == (CHOOSE d \in 1..10 : Digits[d] = sym) - 1

IsWhite(sym) == sym = " "

U16_MAX == 65535

\* Display for an unsigned integer: its decimal digits.
RECURSIVE to_string(_)
to_string(n) ==
    IF n < 10 THEN <<Digits[n + 1]>>
    ELSE Append(to_string(n \div 10), Digits[(n % 10) + 1])

\* The digits of `field` read from the left onto `acc`; -1 when a symbol is
\* no digit or the value passes `max`.
RECURSIVE parse_digits(_, _, _)
parse_digits(field, acc, max) ==
    IF field = <<>> THEN acc
    ELSE IF ~IsDigit(Head(field)) THEN -1
    ELSE IF acc * 10 + DigitVal(Head(field)) > max THEN -1
    ELSE parse_digits(Tail(field), acc * 10 + DigitVal(Head(field)), max)

\* str::parse for an unsigned integer type of maximum `max`: decimal digits
\* after an optional "+"; -1 stands for Err.
parse_uint(field, max) ==
    LET digits == IF field # <<>> /\ Head(field) = "+" THEN Tail(field)
                  ELSE field
    IN  IF digits = <<>> THEN -1 ELSE parse_digits(digits, 0, max)

\* parse::<u64>: the texts of the model stay below 2^31, far from the
\* maximum of u64.
U64_MODEL_MAX == 2000000000

\* str::split(sep): the pieces between the separators, at least one.
RECURSIVE split(_, _)
split(s, sep) ==
    IF \A i \in 1..Len(s) : s[i] # sep THEN <<s>>
    ELSE LET k == CHOOSE i \in 1..Len(s) :
                      s[i] = sep /\ \A j \in 1..(i - 1) : s[j] # sep
         IN  <<SubSeq(s, 1, k - 1)>> \o split(SubSeq(s, k + 1, Len(s)), sep)

\* str::lines(): the pieces between line feeds, without a last empty one.
lines(content) ==
    LET pieces == split(content, "LF")
    IN  IF pieces[Len(pieces)] = <<>> THEN SubSeq(pieces, 1, Len(pieces) - 1)
        ELSE pieces

\* str::trim(): without the white space at both ends.
RECURSIVE trim_start(_)
trim_start(s) ==
    IF s # <<>> /\ IsWhite(Head(s)) THEN trim_start(Tail(s)) ELSE s

RECURSIVE trim_end(_)
trim_end(s) ==
    IF s # <<>> /\ IsWhite(s[Len(s)]) THEN trim_end(SubSeq(s, 1, Len(s) - 1))
    ELSE s

trim(s) == trim_end(trim_start(s))

\* The number an error message names for the line at 0-based index line_num.
error_line_mut(line_num) == line_num

error_line(line_num) == line_num + 1

\* One line of parse_channels_conf's loop, already trimmed and neither
\* empty nor a comment.
parse_channel_line(line, line_num) ==
    LET fields == split(line, ":") IN
    IF Len(fields) # 13
    THEN [ok |-> FALSE, line |-> error_line(line_num), err |-> "fields"]
    ELSE
      LET frequency  == parse_uint(At(fields, 1), U64_MODEL_MAX)
          video_pid  == parse_uint(At(fields, 10), U16_MAX)
          audio_pid  == parse_uint(At(fields, 11), U16_MAX)
          service_id == parse_uint(At(fields, 12), U16_MAX)
      IN
      IF frequency = -1
      THEN [ok |-> FALSE, line |-> error_line(line_num), err |-> "frequency"]
      ELSE IF video_pid = -1
      THEN [ok |-> FALSE, line |-> error_line(line_num), err |-> "video_pid"]
      ELSE IF audio_pid = -1
      THEN [ok |-> FALSE, line |-> error_line(line_num), err |-> "audio_pid"]
      ELSE IF service_id = -1
      THEN [ok |-> FALSE, line |-> error_line(line_num), err |-> "service_id"]
      ELSE [ok |-> TRUE,
            channel |-> [name              |-> At(fields, 0),
                         frequency         |-> frequency,
                         inversion         |-> At(fields, 2),
                         bandwidth         |-> At(fields, 3),
                         fec_hp            |-> At(fields, 4),
                         fec_lp            |-> At(fields, 5),
                         modulation        |-> At(fields, 6),
                         transmission_mode |-> At(fields, 7),
                         guard_interval    |-> At(fields, 8),
                         hierarchy         |-> At(fields, 9),
                         video_pid         |-> video_pid,
                         audio_pid         |-> audio_pid,
                         service_id        |-> service_id]]

\* The loop of parse_channels_conf from the line at index line_num on,
\* `channels` holding the channels of the lines before it.
RECURSIVE parse_lines(_, _, _)
parse_lines(ls, line_num, channels) ==
    IF line_num >= Len(ls) THEN [ok |-> TRUE, channels |-> channels]
    ELSE
      LET line == trim(At(ls, line_num)) IN
      IF line = <<>> \/ Head(line) = "#"
      THEN parse_lines(ls, line_num + 1, channels)
      ELSE LET r == parse_channel_line(line, line_num) IN
           IF r.ok
           THEN parse_lines(ls, line_num + 1, Append(channels, r.channel))
           ELSE r

\* parse_channels_conf on the content fs::read_to_string returned.
parse_channels_conf(content) == parse_lines(lines(content), 0, <<>>)

channel_to_zap_line(ch) ==
    ch.name \o <<":">> \o to_string(ch.frequency) \o <<":">>
      \o ch.inversion \o <<":">> \o ch.bandwidth \o <<":">>
      \o ch.fec_hp \o <<":">> \o ch.fec_lp \o <<":">>
      \o ch.modulation \o <<":">> \o ch.transmission_mode \o <<":">>
      \o ch.guard_interval \o <<":">> \o ch.hierarchy \o <<":">>
      \o to_string(ch.video_pid) \o <<":">> \o to_string(ch.audio_pid)
      \o <<":">> \o to_string(ch.service_id)

\* The enumerated vocabularies of the tuning parameters (tuner.rs).
InversionVocab == {"INVERSION_OFF", "INVERSION_ON", "INVERSION_AUTO"}

BandwidthVocab ==
    {"BANDWIDTH_5_MHZ", "BANDWIDTH_6_MHZ", "BANDWIDTH_7_MHZ", "BANDWIDTH_8_MHZ",
     "BANDWIDTH_10_MHZ", "BANDWIDTH_1_712_MHZ", "BANDWIDTH_AUTO"}

FecVocab ==
    {"FEC_NONE", "FEC_1_2", "FEC_2_3", "FEC_3_4", "FEC_4_5", "FEC_5_6",
     "FEC_6_7", "FEC_7_8", "FEC_8_9", "FEC_AUTO"}

ModulationVocab ==
    {"QPSK", "QAM_16", "QAM_32", "QAM_64", "QAM_128", "QAM_256", "QAM_AUTO"}

TransmissionVocab ==
    {"TRANSMISSION_MODE_1K", "TRANSMISSION_MODE_2K", "TRANSMISSION_MODE_4K",
     "TRANSMISSION_MODE_8K", "TRANSMISSION_MODE_16K", "TRANSMISSION_MODE_32K",
     "TRANSMISSION_MODE_AUTO"}

GuardVocab ==
    {"GUARD_INTERVAL_1_32", "GUARD_INTERVAL_1_16", "GUARD_INTERVAL_1_8",
     "GUARD_INTERVAL_1_4", "GUARD_INTERVAL_AUTO"}

HierarchyVocab ==
    {"HIERARCHY_NONE", "HIERARCHY_1", "HIERARCHY_2", "HIERARCHY_4",
     "HIERARCHY_AUTO"}

\* A text is a member of a vocabulary when it is that one word.
InVocab(text, vocab) == Len(text) = 1 /\ text[1] \in vocab

EnumsInVocab(ch) ==
    /\ InVocab(ch.inversion, InversionVocab)
    /\ InVocab(ch.bandwidth, BandwidthVocab)
    /\ InVocab(ch.fec_hp, FecVocab)
    /\ InVocab(ch.fec_lp, FecVocab)
    /\ InVocab(ch.modulation, ModulationVocab)
    /\ InVocab(ch.transmission_mode, TransmissionVocab)
    /\ InVocab(ch.guard_interval, GuardVocab)
    /\ InVocab(ch.hierarchy, HierarchyVocab)

----------------------------------------------------------------------------
(* scan.rs: a ScanEntry and its Channel.  A field of a ScanEntry is one    *)
(* token of the dvbv5 file, a TLA+ string; a field of a Channel is a text. *)

\* One word for every token, were there no match.
dvbv5_to_zap_inversion_mut(s) == <<"INVERSION_AUTO">>

dvbv5_to_zap_inversion(s) ==
    CASE s = "AUTO" -> <<"INVERSION_AUTO">>
      [] s = "ON"   -> <<"INVERSION_ON">>
      [] s = "OFF"  -> <<"INVERSION_OFF">>
      [] OTHER      -> <<"INVERSION_AUTO">>

dvbv5_to_zap_bandwidth(hz) ==
    CASE hz = 5000000  -> <<"BANDWIDTH_5_MHZ">>
      [] hz = 6000000  -> <<"BANDWIDTH_6_MHZ">>
      [] hz = 7000000  -> <<"BANDWIDTH_7_MHZ">>
      [] hz = 8000000  -> <<"BANDWIDTH_8_MHZ">>
      [] hz = 10000000 -> <<"BANDWIDTH_10_MHZ">>
      [] hz = 1712000  -> <<"BANDWIDTH_1_712_MHZ">>
      [] OTHER         -> <<"BANDWIDTH_AUTO">>

dvbv5_to_zap_fec(s) ==
    CASE s = "NONE" -> <<"FEC_NONE">>
      [] s = "1/2"  -> <<"FEC_1_2">>
      [] s = "2/3"  -> <<"FEC_2_3">>
      [] s = "3/4"  -> <<"FEC_3_4">>
      [] s = "4/5"  -> <<"FEC_4_5">>
      [] s = "5/6"  -> <<"FEC_5_6">>
      [] s = "6/7"  -> <<"FEC_6_7">>
      [] s = "7/8"  -> <<"FEC_7_8">>
      [] s = "8/9"  -> <<"FEC_8_9">>
      [] s = "AUTO" -> <<"FEC_AUTO">>
      [] OTHER      -> <<"FEC_AUTO">>

dvbv5_to_zap_modulation(s) ==
    CASE s = "QPSK"     -> <<"QPSK">>
      [] s = "QAM/16"   -> <<"QAM_16">>
      [] s = "QAM/32"   -> <<"QAM_32">>
      [] s = "QAM/64"   -> <<"QAM_64">>
      [] s = "QAM/128"  -> <<"QAM_128">>
      [] s = "QAM/256"  -> <<"QAM_256">>
      [] s = "QAM/AUTO" -> <<"QAM_AUTO">>
      [] OTHER          -> <<"QAM_AUTO">>

dvbv5_to_zap_transmission(s) ==
    CASE s = "1K"   -> <<"TRANSMISSION_MODE_1K">>
      [] s = "2K"   -> <<"TRANSMISSION_MODE_2K">>
      [] s = "4K"   -> <<"TRANSMISSION_MODE_4K">>
      [] s = "8K"   -> <<"TRANSMISSION_MODE_8K">>
      [] s = "16K"  -> <<"TRANSMISSION_MODE_16K">>
      [] s = "32K"  -> <<"TRANSMISSION_MODE_32K">>
      [] s = "AUTO" -> <<"TRANSMISSION_MODE_AUTO">>
      [] OTHER      -> <<"TRANSMISSION_MODE_AUTO">>

dvbv5_to_zap_guard(s) ==
    CASE s = "1/32" -> <<"GUARD_INTERVAL_1_32">>
      [] s = "1/16" -> <<"GUARD_INTERVAL_1_16">>
      [] s = "1/8"  -> <<"GUARD_INTERVAL_1_8">>
      [] s = "1/4"  -> <<"GUARD_INTERVAL_1_4">>
      [] s = "AUTO" -> <<"GUARD_INTERVAL_AUTO">>
      [] OTHER      -> <<"GUARD_INTERVAL_AUTO">>

\* The token as it is, were there no table.
dvbv5_to_zap_hierarchy_mut(s) == <<s>>

dvbv5_to_zap_hierarchy(s) ==
    CASE s = "NONE" -> <<"HIERARCHY_NONE">>
      [] s = "1"    -> <<"HIERARCHY_1">>
      [] s = "2"    -> <<"HIERARCHY_2">>
      [] s = "4"    -> <<"HIERARCHY_4">>
      [] s = "AUTO" -> <<"HIERARCHY_AUTO">>
      [] OTHER      -> <<"HIERARCHY_NONE">>

\* The Channel, were the modulation token copied as it is.
to_channel_mut(entry) ==
    [name              |-> <<>>,
     frequency         |-> entry.frequency,
     inversion         |-> dvbv5_to_zap_inversion(entry.inversion),
     bandwidth         |-> dvbv5_to_zap_bandwidth(entry.bandwidth_hz),
     fec_hp            |-> dvbv5_to_zap_fec(entry.code_rate_hp),
     fec_lp            |-> dvbv5_to_zap_fec(entry.code_rate_lp),
     modulation        |-> <<entry.modulation>>,
     transmission_mode |-> dvbv5_to_zap_transmission(entry.transmission_mode),
     guard_interval    |-> dvbv5_to_zap_guard(entry.guard_interval),
     hierarchy         |-> dvbv5_to_zap_hierarchy(entry.hierarchy),
     video_pid         |-> 0,
     audio_pid         |-> 0,
     service_id        |-> 0]

\* ScanEntry::to_channel
to_channel(entry) ==
    [name              |-> <<>>,
     frequency         |-> entry.frequency,
     inversion         |-> dvbv5_to_zap_inversion(entry.inversion),
     bandwidth         |-> dvbv5_to_zap_bandwidth(entry.bandwidth_hz),
     fec_hp            |-> dvbv5_to_zap_fec(entry.code_rate_hp),
     fec_lp            |-> dvbv5_to_zap_fec(entry.code_rate_lp),
     modulation        |-> dvbv5_to_zap_modulation(entry.modulation),
     transmission_mode |-> dvbv5_to_zap_transmission(entry.transmission_mode),
     guard_interval    |-> dvbv5_to_zap_guard(entry.guard_interval),
     hierarchy         |-> dvbv5_to_zap_hierarchy(entry.hierarchy),
     video_pid         |-> 0,
     audio_pid         |-> 0,
     service_id        |-> 0]

\* An entry of the scan table shipped for Taiwan, and one whose tokens are
\* unknown or missing (parse_scan_file leaves a missing key empty or 0).
ScanEntries ==
    {[delivery_system |-> "DVBT", frequency |-> 533000000,
      bandwidth_hz |-> 6000000, code_rate_hp |-> "2/3", code_rate_lp |-> "NONE",
      modulation |-> "QAM/64", transmission_mode |-> "8K",
      guard_interval |-> "1/8", hierarchy |-> "NONE", inversion |-> "AUTO"],
     [delivery_system |-> "", frequency |-> 557000000,
      bandwidth_hz |-> 0, code_rate_hp |-> "9/10", code_rate_lp |-> "",
      modulation |-> "QAM/512", transmission_mode |-> "64K",
      guard_interval |-> "1/128", hierarchy |-> "8", inversion |-> ""]}

----------------------------------------------------------------------------
(* scan.rs: the PAT, SDT and PMT parsers.  A subtraction section_end - 4   *)
(* with section_length 0 panics in a build that checks overflow; in one    *)
(* that does not, the end wraps to 2^64 - 1 and the loop that follows      *)
(* indexes past the buffer: a panic in both.                               *)

\* The while loop of parse_pat_sections over one section.
RECURSIVE pat_entries_from(_, _, _, _)
pat_entries_from(data, pos, entries_end, entries) ==
    IF ~(pos + 4 <= entries_end) THEN entries
    ELSE
      LET program_number == U16(At(data, pos), At(data, pos + 1))
          pid == (At(data, pos + 2) % 32) * 256 + At(data, pos + 3)
      IN  pat_entries_from(
              data, pos + 4, entries_end,
              IF program_number # 0
              THEN Append(entries, [service_id |-> program_number,
                                    pmt_pid    |-> pid])
              ELSE entries)

\* The for loop of parse_pat_sections: [panic, entries].
RECURSIVE pat_sections_from(_, _)
pat_sections_from(sections, acc) ==
    IF sections = <<>> \/ acc.panic THEN acc
    ELSE
      LET data           == Head(sections)
          section_length == Len12(At(data, 1), At(data, 2))
          section_end    == 3 + section_length
      IN
      IF Len(data) < 12 THEN pat_sections_from(Tail(sections), acc)
      ELSE IF Len(data) < section_end
      THEN pat_sections_from(Tail(sections), acc)
      ELSE IF section_end < 4 THEN [acc EXCEPT !.panic = TRUE]
      ELSE pat_sections_from(
               Tail(sections),
               [acc EXCEPT !.entries =
                    pat_entries_from(data, 8, section_end - 4, @)])

parse_pat_sections(sections) ==
    LET r == pat_sections_from(sections, [panic |-> FALSE, entries |-> <<>>])
    IN  IF r.panic THEN [kind |-> "panic", entries |-> <<>>]
        ELSE IF r.entries = <<>>
        THEN [kind |-> "PAT: no services found", entries |-> <<>>]
        ELSE [kind |-> "ok", entries |-> r.entries]

SERVICE_DESCRIPTOR == 72

\* The descriptor loop of one SDT service: the service name found last.
RECURSIVE sdt_name_from(_, _, _, _)
sdt_name_from(data, dpos, desc_end, service_name) ==
    IF ~(dpos + 2 <= desc_end) THEN service_name
    ELSE
      LET tag == At(data, dpos)
          len == At(data, dpos + 1)
      IN
      IF dpos + 2 + len > desc_end THEN service_name
      ELSE
        LET desc         == Slice(data, dpos + 2, dpos + 2 + len)
            provider_len == At(desc, 1)
            name_len     == At(desc, 2 + provider_len)
        IN  sdt_name_from(
                data, dpos + 2 + len, desc_end,
                IF /\ tag = SERVICE_DESCRIPTOR /\ len >= 2
                   /\ 2 + provider_len + 1 <= Len(desc)
                   /\ 3 + provider_len + name_len <= Len(desc)
                THEN decode_dvb_text(Slice(desc, 3 + provider_len,
                                           3 + provider_len + name_len))
                ELSE service_name)

\* The while loop of parse_sdt_sections over one section.
RECURSIVE sdt_services_from(_, _, _, _)
sdt_services_from(data, pos, entries_end, services) ==
    IF ~(pos + 5 <= entries_end) THEN services
    ELSE
      LET service_id       == U16(At(data, pos), At(data, pos + 1))
          desc_loop_length == Len12(At(data, pos + 3), At(data, pos + 4))
          desc_start       == pos + 5
          desc_end         == desc_start + desc_loop_length
      IN
      IF desc_start + desc_loop_length > entries_end THEN services
      ELSE sdt_services_from(
               data, desc_end, entries_end,
               Append(services,
                      <<service_id,
                        sdt_name_from(data, desc_start, desc_end, <<>>)>>))

\* The for loop of parse_sdt_sections: [panic, services].
RECURSIVE sdt_sections_from(_, _)
sdt_sections_from(sections, acc) ==
    IF sections = <<>> \/ acc.panic THEN acc
    ELSE
      LET data           == Head(sections)
          section_length == Len12(At(data, 1), At(data, 2))
          section_end    == 3 + section_length
      IN
      IF Len(data) < 15 THEN sdt_sections_from(Tail(sections), acc)
      ELSE IF Len(data) < section_end
      THEN sdt_sections_from(Tail(sections), acc)
      ELSE IF section_end < 4 THEN [acc EXCEPT !.panic = TRUE]
      ELSE sdt_sections_from(
               Tail(sections),
               [acc EXCEPT !.services =
                    sdt_services_from(data, 11, section_end - 4, @)])

parse_sdt_sections(sections) ==
    LET r == sdt_sections_from(sections, [panic |-> FALSE, services |-> <<>>])
    IN  IF r.panic THEN [kind |-> "panic", services |-> <<>>]
        ELSE [kind |-> "ok", services |-> r.services]

VideoStreamTypes == {1, 2, 16, 27, 36}

AudioStreamTypes == {3, 4, 15, 17}

\* The while loop of parse_pmt.
RECURSIVE pmt_streams_from(_, _, _, _)
pmt_streams_from(data, pos, entries_end, info) ==
    IF ~(pos + 5 <= entries_end) THEN info
    ELSE
      LET stream_type    == At(data, pos)
          elementary_pid == (At(data, pos + 1) % 32) * 256 + At(data, pos + 2)
          es_info_length == Len12(At(data, pos + 3), At(data, pos + 4))
      IN  pmt_streams_from(
              data, pos + 5 + es_info_length, entries_end,
              [video_pid |->
                  IF info.video_pid = 0 /\ stream_type \in VideoStreamTypes
                  THEN elementary_pid ELSE info.video_pid,
               audio_pid |->
                  IF info.audio_pid = 0 /\ stream_type \in AudioStreamTypes
                  THEN elementary_pid ELSE info.audio_pid])

NoPids == [video_pid |-> 0, audio_pid |-> 0]

parse_pmt(data) ==
    IF Len(data) < 16 THEN [kind |-> "PMT too short", info |-> NoPids]
    ELSE
      LET section_length == Len12(At(data, 1), At(data, 2))
          section_end    == 3 + section_length
          program_info_length == Len12(At(data, 10), At(data, 11))
      IN
      IF Len(data) < section_end THEN [kind |-> "PMT truncated", info |-> NoPids]
      ELSE IF section_end < 4 THEN [kind |-> "panic", info |-> NoPids]
      ELSE [kind |-> "ok",
            info |-> pmt_streams_from(data, 12 + program_info_length,
                                      section_end - 4, NoPids)]

\* A section of `body` after the 8-byte header, its section_length that of
\* its bytes.
MakeSection(table_id, id, section_number, last, body) ==
    LET section_length == 5 + Len(body) + 4
    IN  <<table_id, 176 + (section_length \div 256), section_length % 256,
          id \div 256, id % 256, 193, section_number, last>>
          \o body \o <<0, 0, 0, 0>>

\* PAT: `programs` is a sequence of <<program_number, pid>>.
MakePat(section_number, last, programs) ==
    MakeSection(0, 1, section_number, last,
        Flatten([i \in 1..Len(programs) |->
            <<programs[i][1] \div 256, programs[i][1] % 256,
              224 + (programs[i][2] \div 256), programs[i][2] % 256>>]))

\* SDT: `services` is a sequence of <<service_id, name bytes>>, each with
\* one service descriptor of provider "P".
MakeSdt(section_number, last, services) ==
    MakeSection(66, 1, section_number, last,
        <<0, 1, 255>> \o
        Flatten([i \in 1..Len(services) |->
            LET name == services[i][2]
                desc == <<SERVICE_DESCRIPTOR, 4 + Len(name), 1, 1, 80, Len(name)>>
                          \o name
            IN  <<services[i][1] \div 256, services[i][1] % 256, 252,
                  128 + (Len(desc) \div 256), Len(desc) % 256>> \o desc]))

\* PMT: `streams` is a sequence of <<stream_type, elementary_pid>>.
MakePmt(program_number, streams) ==
    MakeSection(2, program_number, 0, 0,
        <<224, 0, 240, 0>> \o
        Flatten([i \in 1..Len(streams) |->
            <<streams[i][1], 224 + (streams[i][2] \div 256),
              streams[i][2] % 256, 240, 0>>]))

----------------------------------------------------------------------------
(* tuner.rs: the enum parsers and Tuner::tune.                             *)

\* Each parser: TRUE when the text is one of the words it matches.
parse_bandwidth(s) == InVocab(s, BandwidthVocab)

parse_modulation(s) == InVocab(s, ModulationVocab)

parse_fec(s) == InVocab(s, FecVocab)

parse_inversion(s) == InVocab(s, InversionVocab)

parse_transmission_mode(s) == InVocab(s, TransmissionVocab)

parse_guard_interval(s) == InVocab(s, GuardVocab)

parse_hierarchy(s) == InVocab(s, HierarchyVocab)

\* The property array, were it built whatever the parsers return.
props_ok_mut(channel) == TRUE

\* The `?` of the property array: TRUE when every parser returns Ok.
props_ok(channel) ==
    /\ parse_bandwidth(channel.bandwidth)
    /\ parse_modulation(channel.modulation)
    /\ parse_fec(channel.fec_hp)
    /\ parse_fec(channel.fec_lp)
    /\ parse_inversion(channel.inversion)
    /\ parse_transmission_mode(channel.transmission_mode)
    /\ parse_guard_interval(channel.guard_interval)
    /\ parse_hierarchy(channel.hierarchy)

FE_HAS_LOCK == 16

has_lock_bit_mut(status) == status # 0

\* status & FE_HAS_LOCK != 0
has_lock_bit(status) == (status \div FE_HAS_LOCK) % 2 = 1

\* for i in 0..100
TUNE_POLLS == 100

\* thread::sleep(Duration::from_millis(100))
TUNE_SLEEP_MS == 100

\* Frontend statuses: nothing, signal to sync without lock (0x0F), all
\* bits (0x1F), the lock bit alone.
StatusValues == {0, 15, 31, 16}

TuneFrame == UNCHANGED <<fnVars, envVars, eitVars, rasVars, scanVars, mainVars>>

\* tune is entered with `channel`.
TuneEnter(channel) ==
    /\ tune_pc' = "clear"
    /\ tune_channel' = <<channel>>
    /\ reads' = 0
    /\ lock_reads' = 0
    /\ slept_ms' = 0
    /\ last_status' = 0
    /\ tune_result' = ""
    /\ fe_log' = fe_log

TuneReturn(result) ==
    /\ tune_pc' = "returned"
    /\ tune_result' = result

\* fe_set_property(DTV_CLEAR) fails.
TuneClearFails ==
    /\ TuneFrame
    /\ tune_pc = "clear"
    /\ TuneReturn("DTV_CLEAR failed")
    /\ UNCHANGED <<tune_channel, reads, lock_reads, slept_ms, last_status, fe_log>>

TuneClear ==
    /\ TuneFrame
    /\ tune_pc = "clear"
    /\ fe_log' = Append(fe_log, "CLEAR")
    /\ tune_pc' = "props"
    /\ UNCHANGED <<tune_channel, reads, lock_reads, slept_ms, last_status,
                   tune_result>>

\* One of the parsers returns Err: no batch is submitted.
TuneUnknownEnum ==
    /\ TuneFrame
    /\ tune_pc = "props"
    /\ ~props_ok(tune_channel[1])
    /\ TuneReturn("Unknown enum")
    /\ UNCHANGED <<tune_channel, reads, lock_reads, slept_ms, last_status, fe_log>>

\* fe_set_property of the eleven properties fails.
TuneBatchFails ==
    /\ TuneFrame
    /\ tune_pc = "props"
    /\ props_ok(tune_channel[1])
    /\ TuneReturn("FE_SET_PROPERTY failed")
    /\ UNCHANGED <<tune_channel, reads, lock_reads, slept_ms, last_status, fe_log>>

TuneBatch ==
    /\ TuneFrame
    /\ tune_pc = "props"
    /\ props_ok(tune_channel[1])
    /\ fe_log' = Append(fe_log, "TUNE")
    /\ tune_pc' = "poll"
    /\ UNCHANGED <<tune_channel, reads, lock_reads, slept_ms, last_status,
                   tune_result>>

\* fe_read_status fails.
TuneStatusFails ==
    /\ TuneFrame
    /\ tune_pc = "poll"
    /\ reads < TUNE_POLLS
    /\ TuneReturn("FE_READ_STATUS failed")
    /\ UNCHANGED <<tune_channel, reads, lock_reads, slept_ms, last_status, fe_log>>

\* A status with the lock bit: Ok.
TuneLocked ==
    /\ TuneFrame
    /\ tune_pc = "poll"
    /\ reads < TUNE_POLLS
    /\ \E status \in StatusValues :
          /\ has_lock_bit(status)
          /\ last_status' = status
    /\ reads' = reads + 1
    /\ lock_reads' = lock_reads + 1
    /\ TuneReturn("Ok")
    /\ UNCHANGED <<tune_channel, slept_ms, fe_log>>

\* A status without the lock bit: sleep 100 ms, next turn.
TuneNotLocked ==
    /\ TuneFrame
    /\ tune_pc = "poll"
    /\ reads < TUNE_POLLS
    /\ \E status \in StatusValues :
          /\ ~has_lock_bit(status)
          /\ last_status' = status
    /\ reads' = reads + 1
    /\ slept_ms' = slept_ms + TUNE_SLEEP_MS
    /\ UNCHANGED <<tune_pc, tune_channel, lock_reads, fe_log, tune_result>>

\* The for loop is over.
TuneTimesOut ==
    /\ TuneFrame
    /\ tune_pc = "poll"
    /\ ~(reads < TUNE_POLLS)
    /\ TuneReturn("Tuning timed out")
    /\ UNCHANGED <<tune_channel, reads, lock_reads, slept_ms, last_status, fe_log>>

----------------------------------------------------------------------------
(* One call of a pure function on an argument drawn from a bounded set.    *)

MaxTextLen == 4

\* First bytes: no table (0), ISO 8859 (1), ISO 8859-N (16), UCS-2 (17),
\* UTF-16 (20), UTF-8 (21), default table ("A" and a UTF-8 lead byte).
TextSelectors == {0, 1, 16, 17, 20, 21, 65, 194}

\* Payload bytes: NUL, LF, US, "A", DEL, continuation bytes (0x80, 0x82,
\* 0x86, 0x9F), lead bytes (0xC2, 0xE0, 0xEE).
TextPayload == {0, 10, 31, 65, 127, 128, 130, 134, 159, 194, 224, 238}

RECURSIVE SeqsUpTo(_, _)
SeqsUpTo(S, n) ==
    IF n = 0 THEN {<<>>}
    ELSE LET shorter == SeqsUpTo(S, n - 1)
         IN  shorter \cup {Append(s, x) : s \in {t \in shorter : Len(t) = n - 1},
                                          x \in S}

TextInputs ==
    {<<>>} \cup {<<sel>> \o p : sel \in TextSelectors,
                               p \in SeqsUpTo(TextPayload, MaxTextLen - 1)}

Call_decode_dvb_text ==
    /\ called = "none"
    /\ \E data \in TextInputs :
          /\ arg' = <<data>>
          /\ ret' = <<decode_dvb_text(data)>>
    /\ called' = "decode_dvb_text"
    /\ UNCHANGED <<envVars, eitVars, tuneVars, rasVars, scanVars, mainVars>>

\* Modified Julian Dates around the epoch (40587) and far from it, within
\* the range where the code's i64 arithmetic fits the checker's integers.
MjdValues == {16000, 40586, 40587, 40588, 55122, 65000}

\* BCD bytes: 00, 01, 24, 59, and the non-decimal A0 and FF.
BcdBytes == {0, 1, 36, 89, 160, 255}

EventHeaders ==
    {<<0, 1, mjd \div 256, mjd % 256, h, m, s, dh, dm, ds, 0, 0>> :
        mjd \in MjdValues, h \in {0, 36, 255}, m \in {0, 89}, s \in {0, 1},
        dh \in BcdBytes, dm \in {0, 89, 255}, ds \in {0, 1}}

Call_parse_eit_event ==
    /\ called = "none"
    /\ \E data \in EventHeaders :
          /\ arg' = <<data>>
          /\ ret' = <<parse_eit_event(data, 1)>>
    /\ called' = "parse_eit_event"
    /\ UNCHANGED <<envVars, eitVars, tuneVars, rasVars, scanVars, mainVars>>

MaxNameLen == 2

NameSymbols == {"A", ":", " ", "#", "LF", "1"}

\* The tuning parameters of the round-trip test of main.rs, an all-AUTO
\* set, and one whose texts are arbitrary.
TuningProfiles ==
    {[inversion |-> <<"INVERSION_AUTO">>, bandwidth |-> <<"BANDWIDTH_6_MHZ">>,
      fec_hp |-> <<"FEC_2_3">>, fec_lp |-> <<"FEC_AUTO">>,
      modulation |-> <<"QAM_64">>,
      transmission_mode |-> <<"TRANSMISSION_MODE_8K">>,
      guard_interval |-> <<"GUARD_INTERVAL_1_8">>,
      hierarchy |-> <<"HIERARCHY_NONE">>],
     [inversion |-> <<"INVERSION_AUTO">>, bandwidth |-> <<"BANDWIDTH_AUTO">>,
      fec_hp |-> <<"FEC_AUTO">>, fec_lp |-> <<"FEC_AUTO">>,
      modulation |-> <<"QAM_AUTO">>,
      transmission_mode |-> <<"TRANSMISSION_MODE_AUTO">>,
      guard_interval |-> <<"GUARD_INTERVAL_AUTO">>,
      hierarchy |-> <<"HIERARCHY_AUTO">>],
     [inversion |-> <<"X">>, bandwidth |-> <<>>,
      fec_hp |-> <<"FEC_2_3">>, fec_lp |-> <<"FEC_AUTO">>,
      modulation |-> <<"QAM_64">>,
      transmission_mode |-> <<"TRANSMISSION_MODE_8K">>,
      guard_interval |-> <<"GUARD_INTERVAL_1_8">>,
      hierarchy |-> <<"HIERARCHY_NONE">>]}

MakeChannel(name, frequency, t, video_pid, audio_pid, service_id) ==
    [name              |-> name,
     frequency         |-> frequency,
     inversion         |-> t.inversion,
     bandwidth         |-> t.bandwidth,
     fec_hp            |-> t.fec_hp,
     fec_lp            |-> t.fec_lp,
     modulation        |-> t.modulation,
     transmission_mode |-> t.transmission_mode,
     guard_interval    |-> t.guard_interval,
     hierarchy         |-> t.hierarchy,
     video_pid         |-> video_pid,
     audio_pid         |-> audio_pid,
     service_id        |-> service_id]

ChannelInputs ==
    {MakeChannel(name, f, t, v, 101, sid) :
        name \in SeqsUpTo(NameSymbols, MaxNameLen), f \in {0, 563000000},
        t \in TuningProfiles, v \in {0, 100}, sid \in {42, 65535}}

\* The file cmd_scan_channels writes for one channel: its line and a line
\* feed; then parse_channels_conf on that file.
Call_roundtrip ==
    /\ called = "none"
    /\ \E ch \in ChannelInputs :
          /\ arg' = <<ch>>
          /\ ret' = <<parse_channels_conf(channel_to_zap_line(ch) \o <<"LF">>)>>
    /\ called' = "roundtrip"
    /\ UNCHANGED <<envVars, eitVars, tuneVars, rasVars, scanVars, mainVars>>

MaxLines == 3

\* The 13 fields of a well-formed line, field k replaced by `text`.
LineWith(k, text) ==
    LET good == <<<<"A">>, <<"5", "5", "7">>, <<"INVERSION_AUTO">>,
                  <<"BANDWIDTH_6_MHZ">>, <<"FEC_AUTO">>, <<"FEC_AUTO">>,
                  <<"QAM_64">>, <<"TRANSMISSION_MODE_8K">>,
                  <<"GUARD_INTERVAL_1_8">>, <<"HIERARCHY_NONE">>,
                  <<"1", "0", "0">>, <<"1", "0", "1">>, <<"1">>>>
        f(i) == IF i = k + 1 THEN text ELSE good[i]
    IN  f(1) \o <<":">> \o f(2) \o <<":">> \o f(3) \o <<":">> \o f(4)
          \o <<":">> \o f(5) \o <<":">> \o f(6) \o <<":">> \o f(7)
          \o <<":">> \o f(8) \o <<":">> \o f(9) \o <<":">> \o f(10)
          \o <<":">> \o f(11) \o <<":">> \o f(12) \o <<":">> \o f(13)

\* Lines: well-formed (two of them, one indented and with "+" in a number),
\* blank, white, comments, 3 and 14 fields, one bad number per field, a
\* service_id of 0 and a modulation that is no word of the vocabulary.
LineInputs ==
    {LineWith(0, <<"A">>),
     <<" ">> \o LineWith(1, <<"+", "7">>) \o <<" ">>,
     <<>>,
     <<" ", " ">>,
     <<"#", "A", ":">>,
     <<" ", "#">>,
     <<"A", ":", "5", "5", "7", ":", "INVERSION_AUTO">>,
     LineWith(12, <<"1", ":", "1">>),
     LineWith(1, <<"A">>),
     LineWith(10, <<"6", "5", "5", "3", "6">>),
     LineWith(11, <<>>),
     LineWith(12, <<"-", "1">>),
     LineWith(12, <<"0">>),
     LineWith(6, <<"QAM_512">>)}

RECURSIVE write_lines(_)
write_lines(ls) ==
    IF ls = <<>> THEN <<>> ELSE Head(ls) \o <<"LF">> \o write_lines(Tail(ls))

\* parse_channels_conf on a file of the lines `ls`, each ended by a line feed.
Call_parse_channels_conf ==
    /\ called = "none"
    /\ \E ls \in SeqsUpTo(LineInputs, MaxLines) :
          /\ arg' = <<ls>>
          /\ ret' = <<parse_channels_conf(write_lines(ls))>>
    /\ called' = "parse_channels_conf"
    /\ UNCHANGED <<envVars, eitVars, tuneVars, rasVars, scanVars, mainVars>>

FnIdle ==
    /\ called = "none"
    /\ arg = <<>>
    /\ ret = <<>>

EitIdle ==
    /\ eit_pc = "idle"
    /\ timeout_secs = 0
    /\ elapsed = 0
    /\ seen_sections = {}
    /\ seen_events = {}
    /\ all_events = <<>>
    /\ dropped = 0
    /\ eit_result = <<>>

TuneIdle ==
    /\ tune_pc = "idle"
    /\ tune_channel = <<>>
    /\ reads = 0
    /\ lock_reads = 0
    /\ slept_ms = 0
    /\ last_status = 0
    /\ fe_log = <<>>
    /\ tune_result = ""

NoFeed == [pid \in {} |-> {}]

RasIdle ==
    /\ demux_open = 0
    /\ ras_pc = "idle"
    /\ ras_table_id = 0
    /\ ras_pid = 0
    /\ ras_elapsed = 0
    /\ ras_sections = {}
    /\ expected_last = <<>>
    /\ ras_exit = ""
    /\ ras_result = [kind |-> "", sections |-> <<>>]

ScanIdle ==
    /\ scan_pc = "idle"
    /\ scan_entry = <<>>
    /\ pat_sections = <<>>
    /\ pat_entries = <<>>
    /\ sdt_read = ""
    /\ sdt_services = <<>>
    /\ pmt_reads = <<>>
    /\ scan_channels = <<>>
    /\ scan_result = [kind |-> "", channels |-> <<>>]

MainIdle ==
    /\ main_pc = "idle"
    /\ scan_entries = <<>>
    /\ entry_index = 0
    /\ all_channels = <<>>
    /\ written = <<>>
    /\ main_exit = ""
    /\ tuned = <<>>
    /\ visits = <<>>

FnInit ==
    /\ FnIdle
    /\ overflow_checks = TRUE
    /\ feed = NoFeed
    /\ EitIdle
    /\ TuneIdle
    /\ RasIdle
    /\ ScanIdle
    /\ MainIdle

\* Tokens of a dvbv5 scan file: those the conversions match, and others (no
\* token, lower case, values DVB-T2 tables hold, a zap word).
ZapTokens ==
    {"AUTO", "ON", "OFF", "NONE", "1/2", "2/3", "3/4", "4/5", "5/6", "6/7",
     "7/8", "8/9", "QPSK", "QAM/16", "QAM/32", "QAM/64", "QAM/128", "QAM/256",
     "QAM/AUTO", "1K", "2K", "4K", "8K", "16K", "32K", "1/32", "1/16", "1/8",
     "1/4", "1", "2", "4",
     "", "auto", "9/10", "QAM/512", "64K", "1/128", "8", "QAM_64"}

\* BANDWIDTH_HZ values: those matched, 0 for a missing key, and others.
ZapBandwidths ==
    {5000000, 6000000, 7000000, 8000000, 10000000, 1712000,
     0, 6, 6000001, 1700000}

ZapFamilies ==
    {"inversion", "bandwidth", "fec", "modulation", "transmission", "guard",
     "hierarchy"}

\* The conversion of `family` on its argument.
dvbv5_to_zap(family, token, hz) ==
    CASE family = "inversion"    -> dvbv5_to_zap_inversion(token)
      [] family = "bandwidth"    -> dvbv5_to_zap_bandwidth(hz)
      [] family = "fec"          -> dvbv5_to_zap_fec(token)
      [] family = "modulation"   -> dvbv5_to_zap_modulation(token)
      [] family = "transmission" -> dvbv5_to_zap_transmission(token)
      [] family = "guard"        -> dvbv5_to_zap_guard(token)
      [] family = "hierarchy"    -> dvbv5_to_zap_hierarchy(token)

\* One of the seven conversions on a token, or on a number of Hz.
Call_dvbv5_to_zap ==
    /\ called = "none"
    /\ \E family \in ZapFamilies :
          \E a \in IF family = "bandwidth"
                   THEN {[family |-> family, token |-> "", hz |-> hz] :
                            hz \in ZapBandwidths}
                   ELSE {[family |-> family, token |-> t, hz |-> 0] :
                            t \in ZapTokens} :
              /\ arg' = <<a>>
              /\ ret' = <<dvbv5_to_zap(a.family, a.token, a.hz)>>
    /\ called' = "dvbv5_to_zap"
    /\ UNCHANGED <<envVars, eitVars, tuneVars, rasVars, scanVars, mainVars>>

SpecZap == FnInit /\ [][Call_dvbv5_to_zap]_vars

\* ScanEntry values: in every field a token its conversion matches, no
\* token, a lower-case token and a zap word; a bandwidth matched, 0 and one
\* that is not matched.
AnyScanEntries ==
    {[delivery_system |-> "DVBT", frequency |-> 533000000,
      bandwidth_hz |-> hz, code_rate_hp |-> hp, code_rate_lp |-> lp,
      modulation |-> m, transmission_mode |-> t, guard_interval |-> g,
      hierarchy |-> h, inversion |-> i] :
        hz \in {6000000, 0, 6000001},
        hp \in {"2/3", "", "FEC_2_3"},
        lp \in {"NONE", "auto", "9/10"},
        m \in {"QAM/64", "", "QAM_64", "QAM/512"},
        t \in {"8K", "8k", "64K"},
        g \in {"1/8", "", "GUARD_INTERVAL_1_8"},
        h \in {"NONE", "4", "8", "HIERARCHY_4"},
        i \in {"AUTO", "OFF", "", "INVERSION_OFF"}}

\* entry.to_channel() on any ScanEntry.
Call_to_channel ==
    /\ called = "none"
    /\ \E entry \in AnyScanEntries :
          /\ arg' = <<entry>>
          /\ ret' = <<to_channel(entry)>>
    /\ called' = "to_channel"
    /\ UNCHANGED <<envVars, eitVars, tuneVars, rasVars, scanVars, mainVars>>

SpecToChannel == FnInit /\ [][Call_to_channel]_vars

MaxSdtSections == 2

\* An SDT section of two services, "TV" and one without a name.
SdtTwo == MakeSdt(0, 0, <<<<1, <<84, 86>>>>, <<2, <<>>>>>>)

\* SDT sections: well-formed ones, 14 bytes, cut short of section_length,
\* section_length 0 (of 15 bytes and of a whole section) and 2, a
\* desc_loop_length and a descriptor length past the end, another tag.
SdtInputs ==
    {MakeSdt(0, 0, <<<<1, <<84, 86>>>>>>),
     SdtTwo,
     MakeSdt(1, 1, <<>>),
     Slice(SdtTwo, 0, 14),
     Slice(SdtTwo, 0, Len(SdtTwo) - 1),
     <<66, 176, 0, 0, 1, 193, 0, 0, 0, 1, 255, 0, 0, 0, 0>>,
     [SdtTwo EXCEPT ![2] = 176, ![3] = 0],
     [SdtTwo EXCEPT ![2] = 176, ![3] = 2],
     [SdtTwo EXCEPT ![16] = 255],
     [SdtTwo EXCEPT ![18] = 255],
     [SdtTwo EXCEPT ![17] = 77]}

\* parse_sdt_sections on the sections a read of the SDT returned.
Call_parse_sdt_sections ==
    /\ called = "none"
    /\ \E secs \in SeqsUpTo(SdtInputs, MaxSdtSections) :
          /\ arg' = <<secs>>
          /\ ret' = <<parse_sdt_sections(secs)>>
    /\ called' = "parse_sdt_sections"
    /\ UNCHANGED <<envVars, eitVars, tuneVars, rasVars, scanVars, mainVars>>

SpecSdt == FnInit /\ [][Call_parse_sdt_sections]_vars

MaxPatSections == 2

\* A PAT section of the NIT entry and programs 1 and 2.
PatThree == MakePat(0, 0, <<<<0, 16>>, <<1, 256>>, <<2, 257>>>>)

\* PAT sections: well-formed ones (no entry, the NIT entry alone, programs
\* with and without it, a PID with the reserved bits clear, two bytes
\* between the last entry and the CRC), 11 bytes, cut short of
\* section_length, and section_length 0 (of 12 bytes and of a whole section).
PatInputs ==
    {MakePat(0, 0, <<>>),
     MakePat(0, 0, <<<<0, 16>>>>),
     MakePat(0, 1, <<<<1, 256>>>>),
     MakePat(1, 1, <<<<3, 8191>>, <<0, 16>>>>),
     PatThree,
     [PatThree EXCEPT ![15] = 1],
     MakeSection(0, 1, 0, 0, <<0, 1, 225, 0, 0, 2>>),
     Slice(PatThree, 0, 11),
     Slice(PatThree, 0, Len(PatThree) - 1),
     <<0, 176, 0, 0, 1, 193, 1, 1, 0, 1, 225, 0>>,
     [PatThree EXCEPT ![2] = 176, ![3] = 0]}

\* parse_pat_sections on the sections a read of the PAT returned.
Call_parse_pat_sections ==
    /\ called = "none"
    /\ \E secs \in SeqsUpTo(PatInputs, MaxPatSections) :
          /\ arg' = <<secs>>
          /\ ret' = <<parse_pat_sections(secs)>>
    /\ called' = "parse_pat_sections"
    /\ UNCHANGED <<envVars, eitVars, tuneVars, rasVars, scanVars, mainVars>>

SpecPat == FnInit /\ [][Call_parse_pat_sections]_vars

MaxStreams == 3

\* Streams of a PMT as <<stream_type, elementary_pid>>: video (MPEG-2,
\* H.264), audio (MPEG-1, AAC), private data, and a video and an audio
\* stream of elementary PID 0.
PmtStreamPool ==
    {<<2, 256>>, <<27, 257>>, <<3, 258>>, <<15, 259>>, <<6, 260>>,
     <<2, 0>>, <<3, 0>>}

\* A PMT of an audio stream with 2 bytes of ES info and a video stream.
PmtEsInfo ==
    MakeSection(2, 1, 0, 0,
        <<224, 0, 240, 0, 3, 225, 2, 240, 2, 10, 0, 27, 225, 1, 240, 0>>)

\* PMT sections: well-formed ones of up to MaxStreams streams, one with ES
\* info, 15 bytes, one cut short of section_length, and section_length 0.
PmtInputs ==
    {MakePmt(1, streams) : streams \in SeqsUpTo(PmtStreamPool, MaxStreams)}
    \cup {PmtEsInfo,
          Slice(PmtEsInfo, 0, 15),
          Slice(PmtEsInfo, 0, Len(PmtEsInfo) - 1),
          [PmtEsInfo EXCEPT ![2] = 176, ![3] = 0]}

\* parse_pmt on the first section a read of a PMT returned.
Call_parse_pmt ==
    /\ called = "none"
    /\ \E data \in PmtInputs :
          /\ arg' = <<data>>
          /\ ret' = <<parse_pmt(data)>>
    /\ called' = "parse_pmt"
    /\ UNCHANGED <<envVars, eitVars, tuneVars, rasVars, scanVars, mainVars>>

SpecPmt == FnInit /\ [][Call_parse_pmt]_vars

\* One specification per function: the states of one hold values of one type.
SpecText == FnInit /\ [][Call_decode_dvb_text]_vars

SpecEvent == FnInit /\ [][Call_parse_eit_event]_vars

SpecRoundTrip == FnInit /\ [][Call_roundtrip]_vars

SpecConf == FnInit /\ [][Call_parse_channels_conf]_vars

----------------------------------------------------------------------------
(* eit.rs: EitReader::read_events.  One turn of its while loop is three    *)
(* steps: the head (the clock is read for the loop condition and again for *)
(* remaining_ms), the poll, and the read of a section.  Time is in ms.     *)

MaxTimeoutSecs == 6

MaxSectionEvents == 2

\* Time that passes between the two readings of the clock.
Delays == {0, 1000}

\* Time a poll that finds the demux readable may have waited.
Waits(poll_ms) == {0, poll_ms}

\* An event without descriptors that starts on day `mjd` at `hour`:00:00
\* and lasts `dur_hour` hours (both BCD).
MakeEitEvent(event_id, mjd, hour, dur_hour) ==
    <<event_id \div 256, event_id % 256, mjd \div 256, mjd % 256, hour, 0, 0,
      dur_hour, 0, 0, 0, 0>>

\* Two events of id 1 (starting at 86400 and at 0) and one of id 2 (at
\* 3600).
EitEventPool ==
    {MakeEitEvent(1, 40588, 0, 1), MakeEitEvent(1, 40587, 0, 1),
     MakeEitEvent(2, 40587, 1, 1)}

\* A section whose section_length is that of its bytes.
MakeEitSection(table_id, service_id, section_number, last, events) ==
    LET body           == Flatten(events)
        section_length == 11 + Len(body) + 4
    IN  <<table_id, 240 + (section_length \div 256), section_length % 256,
          service_id \div 256, service_id % 256, 193, section_number,
          last, 0, 0, 0, 0, 0, 0>> \o body \o <<0, 0, 0, 0>>

\* What one read of the demux may deliver: well-formed sections of the
\* present/following and schedule tables of service 1; one of service 2;
\* one whose first event lasts 25 hours; 17 bytes; a section of another
\* table; a 0x4E section with last_section_number 5; a section cut short of
\* its section_length; sections of section_length 0; OverflowSection.
\* Section 7 of 0..7 of a schedule table: event 7, then an event whose
\* descriptors_length (255) runs past the end of the section.
OverflowSection ==
    MakeEitSection(EIT_SCHEDULE_ACTUAL_MIN, 1, 7, 7,
                   <<MakeEitEvent(7, 40587, 4, 1),
                     [MakeEitEvent(8, 40587, 5, 1) EXCEPT ![12] = 255]>>)

EitReads ==
    {MakeEitSection(t, 1, 0, 0, evs) :
        t \in {EIT_PRESENT_FOLLOWING_ACTUAL, EIT_SCHEDULE_ACTUAL_MIN},
        evs \in SeqsUpTo(EitEventPool, MaxSectionEvents)}
    \cup {MakeEitSection(EIT_PRESENT_FOLLOWING_ACTUAL, 2, 0, 0,
                         <<MakeEitEvent(1, 40587, 1, 1)>>),
          MakeEitSection(EIT_SCHEDULE_ACTUAL_MIN, 1, 0, 0,
                         <<MakeEitEvent(3, 40587, 2, 37),
                           MakeEitEvent(2, 40587, 1, 1)>>),
          [i \in 1..17 |-> IF i = 1 THEN EIT_PRESENT_FOLLOWING_ACTUAL ELSE 0],
          MakeEitSection(66, 1, 0, 0, <<>>),
          MakeEitSection(EIT_PRESENT_FOLLOWING_ACTUAL, 1, 0, 5,
                         <<MakeEitEvent(2, 40587, 1, 1)>>),
          SubSeq(MakeEitSection(EIT_SCHEDULE_ACTUAL_MIN, 1, 0, 0,
                                <<MakeEitEvent(2, 40587, 1, 1)>>), 1, 26),
          <<EIT_SCHEDULE_ACTUAL_MIN, 240, 0, 0, 1, 193, 0, 0,
            0, 0, 0, 0, 0, 0, 0, 0, 0, 0>>,
          <<EIT_PRESENT_FOLLOWING_ACTUAL, 240, 0, 0, 1, 193, 0, 5,
            0, 0, 0, 0, 0, 0, 0, 0, 0, 0>>,
          OverflowSection}

EIT_PID == 18

\* What the demux that EitReader::open filtered on EIT_PID may deliver.
EitDemux == feed[EIT_PID]

timeout_ms == timeout_secs * 1000

\* The time that remains were it computed once, before the loop.
remaining_ms_mut(now) == timeout_ms

\* timeout.checked_sub(start.elapsed()).unwrap_or_default().as_millis()
remaining_ms(now) == IF timeout_ms >= now THEN timeout_ms - now ELSE 0

POLL_CAP_MS == 5000

poll_ms(now) == Min(remaining_ms(now), POLL_CAP_MS)

EitKeep == UNCHANGED <<timeout_secs, seen_sections, seen_events, all_events,
                       dropped>>

\* all_events.sort_by_key(..); Ok(all_events)
ReturnEvents ==
    /\ eit_pc' = "returned"
    /\ eit_result' = <<[kind |-> "ok", events |-> sort_by_key(all_events)]>>
    /\ EitKeep

EitContinue ==
    /\ eit_pc' = "loop"
    /\ eit_result' = eit_result
    /\ EitKeep

read_events ==
    /\ eit_pc = "idle"
    /\ \E t \in {0, MaxTimeoutSecs} : timeout_secs' = t
    /\ eit_pc' = "loop"
    /\ elapsed' = 0
    /\ seen_sections' = {}
    /\ seen_events' = {}
    /\ all_events' = <<>>
    /\ dropped' = 0
    /\ eit_result' = <<>>
    /\ UNCHANGED <<fnVars, tuneVars, rasVars, scanVars, mainVars, envVars>>

\* while start.elapsed() < timeout: false.
EitDeadline ==
    /\ eit_pc = "loop"
    /\ ~(elapsed < timeout_ms)
    /\ ReturnEvents
    /\ UNCHANGED <<fnVars, tuneVars, rasVars, scanVars, mainVars, envVars,
                   elapsed>>

\* if remaining_ms <= 0 { break; }
EitNoTimeLeft ==
    /\ eit_pc = "loop"
    /\ elapsed < timeout_ms
    /\ \E d \in Delays :
          /\ remaining_ms(elapsed + d) <= 0
          /\ elapsed' = elapsed + d
    /\ ReturnEvents
    /\ UNCHANGED <<fnVars, tuneVars, rasVars, scanVars, mainVars, envVars>>

\* remaining_ms > 0: on to the poll.
EitTimeLeft ==
    /\ eit_pc = "loop"
    /\ elapsed < timeout_ms
    /\ \E d \in Delays :
          /\ remaining_ms(elapsed + d) > 0
          /\ elapsed' = elapsed + d
    /\ eit_pc' = "poll"
    /\ eit_result' = eit_result
    /\ EitKeep
    /\ UNCHANGED <<fnVars, tuneVars, rasVars, scanVars, mainVars, envVars>>

\* poll(..) is Err: read_events returns the error.
EitPollFails ==
    /\ eit_pc = "poll"
    /\ eit_pc' = "returned"
    /\ eit_result' = <<[kind |-> "poll failed", events |-> <<>>]>>
    /\ EitKeep
    /\ UNCHANGED <<fnVars, tuneVars, rasVars, scanVars, mainVars, envVars,
                   elapsed>>

\* nfds == 0: the poll waited poll_ms.
EitPollTimesOut ==
    /\ eit_pc = "poll"
    /\ elapsed' = elapsed + poll_ms(elapsed)
    /\ EitContinue
    /\ UNCHANGED <<fnVars, tuneVars, rasVars, scanVars, mainVars, envVars>>

\* The poll finds the demux readable.
EitPollReady ==
    /\ eit_pc = "poll"
    /\ \E w \in Waits(poll_ms(elapsed)) : elapsed' = elapsed + w
    /\ eit_pc' = "read"
    /\ eit_result' = eit_result
    /\ EitKeep
    /\ UNCHANGED <<fnVars, tuneVars, rasVars, scanVars, mainVars, envVars>>

\* self.demux_file.read(..) is Err.
EitReadFails ==
    /\ eit_pc = "read"
    /\ EitContinue
    /\ UNCHANGED <<fnVars, tuneVars, rasVars, scanVars, mainVars, envVars,
                   elapsed>>

\* The filter were it open to every table.
is_eit_table_mut(table_id) == TRUE

\* is_pf || is_sched
is_eit_table(table_id) ==
    \/ table_id = EIT_PRESENT_FOLLOWING_ACTUAL
    \/ (table_id >= EIT_SCHEDULE_ACTUAL_MIN /\ table_id <= EIT_SCHEDULE_ACTUAL_MAX)

section_key(buf) == <<U16(At(buf, 3), At(buf, 4)), At(buf, 0), At(buf, 6)>>

\* n < 18
EitReadShort ==
    /\ eit_pc = "read"
    /\ \E buf \in EitDemux : Len(buf) < 18
    /\ EitContinue
    /\ UNCHANGED <<fnVars, tuneVars, rasVars, scanVars, mainVars, envVars,
                   elapsed>>

\* !is_pf && !is_sched
EitReadOtherTable ==
    /\ eit_pc = "read"
    /\ \E buf \in EitDemux : Len(buf) >= 18 /\ ~is_eit_table(At(buf, 0))
    /\ EitContinue
    /\ UNCHANGED <<fnVars, tuneVars, rasVars, scanVars, mainVars, envVars,
                   elapsed>>

\* seen_sections.contains(&key)
EitReadSeen ==
    /\ eit_pc = "read"
    /\ \E buf \in EitDemux :
          /\ Len(buf) >= 18
          /\ is_eit_table(At(buf, 0))
          /\ section_key(buf) \in seen_sections
    /\ EitContinue
    /\ UNCHANGED <<fnVars, tuneVars, rasVars, scanVars, mainVars, envVars,
                   elapsed>>

\* The key were it recorded once the section is parsed, and only then.
insert_key_mut(seen, key, parsed) == IF parsed THEN seen \cup {key} ELSE seen

\* seen_sections.insert(key), before parse_eit_section is called.
insert_key(seen, key, parsed) == seen \cup {key}

\* A section of a new key: recorded, then parsed.
EitReadNew ==
    /\ eit_pc = "read"
    /\ \E buf \in EitDemux :
          /\ Len(buf) >= 18
          /\ is_eit_table(At(buf, 0))
          /\ section_key(buf) \notin seen_sections
          /\ seen_sections'
                = insert_key(seen_sections, section_key(buf),
                             parse_eit_section(buf, overflow_checks).kind = "ok")
          /\ LET r  == parse_eit_section(buf, overflow_checks)
                 st == collect_events(r.events,
                           [seen |-> seen_events, all |-> all_events,
                            dropped |-> dropped])
             IN  /\ seen_events' = st.seen
                 /\ all_events' = st.all
                 /\ dropped' = st.dropped
                 /\ IF r.kind = "panic"
                    THEN /\ eit_pc' = "returned"
                         /\ eit_result' = <<[kind |-> "panic", events |-> <<>>]>>
                    ELSE /\ eit_pc' = "loop"
                         /\ eit_result' = eit_result
    /\ UNCHANGED <<fnVars, tuneVars, rasVars, scanVars, mainVars, envVars,
                   timeout_secs, elapsed>>

EitInit ==
    /\ FnIdle
    /\ overflow_checks \in BOOLEAN
    /\ feed = [pid \in {EIT_PID} |-> EitReads]
    /\ EitIdle
    /\ TuneIdle
    /\ RasIdle
    /\ ScanIdle
    /\ MainIdle

EitNext ==
    \/ read_events
    \/ EitDeadline
    \/ EitNoTimeLeft
    \/ EitTimeLeft
    \/ EitPollFails
    \/ EitPollTimesOut
    \/ EitPollReady
    \/ EitReadFails
    \/ EitReadShort
    \/ EitReadOtherTable
    \/ EitReadSeen
    \/ EitReadNew

SpecEit == EitInit /\ [][EitNext]_vars

\* Events of a section: two that are accepted, one of 25 hours, one that
\* starts the day before 1970-01-01, and one whose descriptors_length (255)
\* runs past the end of every section built here.
SectionEvents ==
    {MakeEitEvent(1, 40587, 1, 1),
     MakeEitEvent(2, 40588, 0, 1),
     MakeEitEvent(3, 40587, 2, 37),
     MakeEitEvent(4, 40586, 0, 1),
     [MakeEitEvent(5, 40587, 3, 1) EXCEPT ![12] = 255]}

\* Sections of the present/following and of a schedule table, with
\* last_section_number 0 and 5, and two of section_length 0.
SectionInputs ==
    {MakeEitSection(t, 1, 0, last, evs) :
        t \in {EIT_PRESENT_FOLLOWING_ACTUAL, EIT_SCHEDULE_ACTUAL_MIN},
        last \in {0, 5},
        evs \in SeqsUpTo(SectionEvents, MaxSectionEvents)}
    \cup {<<EIT_SCHEDULE_ACTUAL_MIN, 240, 0, 0, 1, 193, 0, 0,
            0, 0, 0, 0, 0, 0, 0, 0, 0, 0>>,
          <<EIT_PRESENT_FOLLOWING_ACTUAL, 240, 0, 0, 1, 193, 0, 5,
            0, 0, 0, 0, 0, 0, 0, 0, 0, 0>>}

\* parse_eit_section on a buffer read from the demux, in a build with and
\* in one without overflow checks.
Call_parse_eit_section ==
    /\ called = "none"
    /\ \E buf \in SectionInputs, checked \in BOOLEAN :
          /\ arg' = <<[buf |-> buf, checked |-> checked]>>
          /\ ret' = <<parse_eit_section(buf, checked)>>
    /\ called' = "parse_eit_section"
    /\ UNCHANGED <<envVars, eitVars, tuneVars, rasVars, scanVars, mainVars>>

SpecSection == FnInit /\ [][Call_parse_eit_section]_vars

----------------------------------------------------------------------------
(* scan.rs: read_all_sections, one turn of its while loop in three steps   *)
(* as in read_events.  The demux handle is open from                       *)
(* open_demux_with_filter to the return, which drops it.                   *)

RAS_TIMEOUT_SECS == 5

ras_timeout_ms == RAS_TIMEOUT_SECS * 1000

ras_remaining_ms(now) == IF ras_timeout_ms >= now THEN ras_timeout_ms - now ELSE 0

ras_poll_ms(now) == Min(ras_remaining_ms(now), POLL_CAP_MS)

\* What a read of the filter on `pid` may return.
Demux(pid) == IF pid \in DOMAIN feed THEN feed[pid] ELSE {}

\* result.sort_by_key(|(num, _)| *num), then the buffers alone.
RECURSIVE sections_sorted(_)
sections_sorted(secs) ==
    IF secs = {} THEN <<>>
    ELSE LET first == CHOOSE p \in secs : \A q \in secs : p[1] <= q[1]
         IN  <<first[2]>> \o sections_sorted(secs \ {first})

\* The map were the entry overwritten: sections.insert(section_number, ..).
or_insert_mut(secs, section_number, buf) ==
    {p \in secs : p[1] # section_number} \cup {<<section_number, buf>>}

\* sections.entry(section_number).or_insert_with(|| buf[..n].to_vec())
or_insert(secs, section_number, buf) ==
    IF \E p \in secs : p[1] = section_number THEN secs
    ELSE secs \cup {<<section_number, buf>>}

\* The test were it one section late.
have_all_mut(count, last) == count > last + 1

\* if sections.len() > last { break; }
have_all(count, last) == count > last

ras_outcome_mut(secs) == [kind |-> "ok", sections |-> sections_sorted(secs)]

\* What read_all_sections returns once its loop is over.
ras_outcome(secs) ==
    IF secs = {} THEN [kind |-> "timeout", sections |-> <<>>]
    ELSE [kind |-> "ok", sections |-> sections_sorted(secs)]

\* The handle were it kept open at the return.
drop_demux_mut(open) == open

\* demux_file goes out of scope: the File is dropped, the descriptor closed.
drop_demux(open) == open - 1

RasFrame == UNCHANGED <<fnVars, envVars, eitVars, tuneVars, scanVars, mainVars>>

\* read_all_sections is entered.
RasEnter(pid, table_id) ==
    /\ ras_pc' = "open"
    /\ ras_pid' = pid
    /\ ras_table_id' = table_id
    /\ ras_elapsed' = 0
    /\ ras_sections' = {}
    /\ expected_last' = <<>>
    /\ ras_exit' = ""
    /\ ras_result' = [kind |-> "", sections |-> <<>>]
    /\ demux_open' = demux_open

RasKeep == UNCHANGED <<ras_table_id, ras_pid, ras_sections, expected_last>>

\* The loop is over with `secs` collected.
RasReturn(secs, exit) ==
    /\ ras_pc' = "returned"
    /\ ras_exit' = exit
    /\ ras_result' = ras_outcome(secs)
    /\ demux_open' = drop_demux(demux_open)

RasContinue ==
    /\ ras_pc' = "loop"
    /\ UNCHANGED <<demux_open, ras_exit, ras_result>>
    /\ RasKeep

\* open_demux_with_filter: the open or DMX_SET_FILTER fails; a handle that
\* was opened is dropped.
RasOpenFails ==
    /\ RasFrame
    /\ ras_pc = "open"
    /\ ras_pc' = "returned"
    /\ ras_exit' = "open failed"
    /\ ras_result' = [kind |-> "open failed", sections |-> <<>>]
    /\ UNCHANGED <<demux_open, ras_elapsed>>
    /\ RasKeep

RasOpen ==
    /\ RasFrame
    /\ ras_pc = "open"
    /\ demux_open' = demux_open + 1
    /\ ras_pc' = "loop"
    /\ UNCHANGED <<ras_elapsed, ras_exit, ras_result>>
    /\ RasKeep

\* while start.elapsed() < timeout: false.
RasDeadline ==
    /\ RasFrame
    /\ ras_pc = "loop"
    /\ ~(ras_elapsed < ras_timeout_ms)
    /\ RasReturn(ras_sections, "deadline")
    /\ UNCHANGED ras_elapsed
    /\ RasKeep

\* if remaining_ms <= 0 { break; }
RasNoTimeLeft ==
    /\ RasFrame
    /\ ras_pc = "loop"
    /\ ras_elapsed < ras_timeout_ms
    /\ \E d \in Delays :
          /\ ras_remaining_ms(ras_elapsed + d) <= 0
          /\ ras_elapsed' = ras_elapsed + d
    /\ RasReturn(ras_sections, "deadline")
    /\ RasKeep

RasTimeLeft ==
    /\ RasFrame
    /\ ras_pc = "loop"
    /\ ras_elapsed < ras_timeout_ms
    /\ \E d \in Delays :
          /\ ras_remaining_ms(ras_elapsed + d) > 0
          /\ ras_elapsed' = ras_elapsed + d
    /\ ras_pc' = "poll"
    /\ UNCHANGED <<demux_open, ras_exit, ras_result>>
    /\ RasKeep

\* poll(..) is Err: read_all_sections returns the error.
RasPollFails ==
    /\ RasFrame
    /\ ras_pc = "poll"
    /\ ras_pc' = "returned"
    /\ ras_exit' = "poll failed"
    /\ ras_result' = [kind |-> "poll failed", sections |-> <<>>]
    /\ demux_open' = drop_demux(demux_open)
    /\ UNCHANGED ras_elapsed
    /\ RasKeep

\* nfds == 0
RasPollTimesOut ==
    /\ RasFrame
    /\ ras_pc = "poll"
    /\ ras_elapsed' = ras_elapsed + ras_poll_ms(ras_elapsed)
    /\ RasContinue

RasPollReady ==
    /\ RasFrame
    /\ ras_pc = "poll"
    /\ \E w \in Waits(ras_poll_ms(ras_elapsed)) : ras_elapsed' = ras_elapsed + w
    /\ ras_pc' = "read"
    /\ UNCHANGED <<demux_open, ras_exit, ras_result>>
    /\ RasKeep

\* demux_file.read(..) is Err.
RasReadFails ==
    /\ RasFrame
    /\ ras_pc = "read"
    /\ UNCHANGED ras_elapsed
    /\ RasContinue

\* n < 8
RasReadShort ==
    /\ RasFrame
    /\ ras_pc = "read"
    /\ \E buf \in Demux(ras_pid) : Len(buf) < 8
    /\ UNCHANGED ras_elapsed
    /\ RasContinue

\* buf[0] != table_id
RasReadOtherTable ==
    /\ RasFrame
    /\ ras_pc = "read"
    /\ \E buf \in Demux(ras_pid) : Len(buf) >= 8 /\ At(buf, 0) # ras_table_id
    /\ UNCHANGED ras_elapsed
    /\ RasContinue

\* A section of the table: kept when its section_number is new; the loop
\* breaks when sections.len() > last.
RasReadSection ==
    /\ RasFrame
    /\ ras_pc = "read"
    /\ \E buf \in Demux(ras_pid) :
          /\ Len(buf) >= 8
          /\ At(buf, 0) = ras_table_id
          /\ LET section_number      == At(buf, 6)
                 last_section_number == At(buf, 7)
                 secs == or_insert(ras_sections, section_number, buf)
             IN  /\ expected_last' = <<last_section_number>>
                 /\ ras_sections' = secs
                 /\ IF have_all(Cardinality(secs), last_section_number)
                    THEN RasReturn(secs, "complete")
                    ELSE /\ ras_pc' = "loop"
                         /\ UNCHANGED <<demux_open, ras_exit, ras_result>>
    /\ UNCHANGED <<ras_table_id, ras_pid, ras_elapsed>>

----------------------------------------------------------------------------
(* scan.rs: scan_frequency.  It reads the PAT, then the SDT, then the PMT  *)
(* of each PAT entry; each step below takes the result of the read before  *)
(* it and starts the next.                                                 *)

\* The printable ASCII characters, U+0020 to U+007E.
AsciiSymbols ==
    <<" ", "!", "\"", "#", "$", "%", "&", "'", "(", ")", "*", "+", ",",
      "-", ".", "/", "0", "1", "2", "3", "4", "5", "6", "7", "8", "9", ":",
      ";", "<", "=", ">", "?", "@", "A", "B", "C", "D", "E", "F", "G", "H",
      "I", "J", "K", "L", "M", "N", "O", "P", "Q", "R", "S", "T", "U", "V",
      "W", "X", "Y", "Z", "[", "\\", "]", "^", "_", "GRAVE", "a", "b", "c",
      "d", "e", "f", "g", "h", "i", "j", "k", "l", "m", "n", "o", "p", "q",
      "r", "s", "t", "u", "v", "w", "x", "y", "z", "{", "|", "}", "~">>

\* The text of a decoded String: its characters as symbols; the grave accent
\* is "GRAVE", a line feed "LF" and a character outside ASCII "U+".
text_of(cps) ==
    [i \in 1..Len(cps) |->
        IF cps[i] \in 32..126 THEN AsciiSymbols[cps[i] - 31]
        ELSE IF cps[i] = 10 THEN "LF"
        ELSE "U+"]

\* format!("Service {}", service_id)
service_label(service_id) ==
    <<"S", "e", "r", "v", "i", "c", "e", " ">> \o to_string(service_id)

\* sdt_services.iter().find(..).map(..).unwrap_or_else(..)
RECURSIVE find_name(_, _)
find_name(services, service_id) ==
    IF services = <<>> THEN service_label(service_id)
    ELSE IF Head(services)[1] = service_id THEN text_of(Head(services)[2])
    ELSE find_name(Tail(services), service_id)

\* The Channel were it the base with the PIDs of the PMT alone.
scanned_channel_mut(base, name, pmt, pat_entry) ==
    [base EXCEPT !.video_pid = pmt.video_pid, !.audio_pid = pmt.audio_pid]

\* The Channel scan_frequency pushes for one PAT entry.
scanned_channel(base, name, pmt, pat_entry) ==
    [name              |-> name,
     frequency         |-> base.frequency,
     inversion         |-> base.inversion,
     bandwidth         |-> base.bandwidth,
     fec_hp            |-> base.fec_hp,
     fec_lp            |-> base.fec_lp,
     modulation        |-> base.modulation,
     transmission_mode |-> base.transmission_mode,
     guard_interval    |-> base.guard_interval,
     hierarchy         |-> base.hierarchy,
     video_pid         |-> pmt.video_pid,
     audio_pid         |-> pmt.audio_pid,
     service_id        |-> pat_entry.service_id]

PAT_PID == 0

PAT_TABLE_ID == 0

SDT_PID == 17

SDT_TABLE_ID == 66

PMT_TABLE_ID == 2

ScanFrame == UNCHANGED <<fnVars, envVars, eitVars, tuneVars, mainVars>>

\* scan_frequency is entered: entry.to_channel(), then the PAT read.
ScanEnter(entry) ==
    /\ scan_pc' = "pat"
    /\ scan_entry' = <<entry>>
    /\ pat_sections' = <<>>
    /\ pat_entries' = <<>>
    /\ sdt_read' = ""
    /\ sdt_services' = <<>>
    /\ pmt_reads' = <<>>
    /\ scan_channels' = <<>>
    /\ scan_result' = [kind |-> "", channels |-> <<>>]
    /\ RasEnter(PAT_PID, PAT_TABLE_ID)

ScanReturn(kind, chs) ==
    /\ scan_pc' = "returned"
    /\ scan_result' = [kind |-> kind, channels |-> chs]
    /\ ras_pc' = "idle"
    /\ UNCHANGED <<demux_open, ras_table_id, ras_pid, ras_elapsed, ras_sections,
                   expected_last, ras_exit, ras_result>>

\* The entry of the k-th turn, were the loop to run from the last entry.
nth_entry_mut(entries, k) == entries[Len(entries) + 1 - k]

\* for pat_entry in &pat_entries: the entry of the k-th turn.
nth_entry(entries, k) == entries[k]

\* read_all_sections(adapter, 0x0000, 0x00, 5)? is Err.
ScanPatFails ==
    /\ ScanFrame
    /\ scan_pc = "pat" /\ ras_pc = "returned"
    /\ ras_result.kind # "ok"
    /\ ScanReturn(ras_result.kind, <<>>)
    /\ UNCHANGED <<scan_entry, pat_sections, pat_entries, sdt_read,
                   sdt_services, pmt_reads, scan_channels>>

\* parse_pat_sections(&pat_sections)? is Err, or panics.
ScanPatUnparsed ==
    /\ ScanFrame
    /\ scan_pc = "pat" /\ ras_pc = "returned"
    /\ ras_result.kind = "ok"
    /\ parse_pat_sections(ras_result.sections).kind # "ok"
    /\ pat_sections' = ras_result.sections
    /\ ScanReturn(parse_pat_sections(ras_result.sections).kind, <<>>)
    /\ UNCHANGED <<scan_entry, pat_entries, sdt_read, sdt_services, pmt_reads,
                   scan_channels>>

\* The PAT is parsed: on to the SDT read.
ScanPatParsed ==
    /\ ScanFrame
    /\ scan_pc = "pat" /\ ras_pc = "returned"
    /\ ras_result.kind = "ok"
    /\ parse_pat_sections(ras_result.sections).kind = "ok"
    /\ pat_sections' = ras_result.sections
    /\ pat_entries' = parse_pat_sections(ras_result.sections).entries
    /\ scan_pc' = "sdt"
    /\ RasEnter(SDT_PID, SDT_TABLE_ID)
    /\ UNCHANGED <<scan_entry, sdt_read, sdt_services, pmt_reads, scan_channels,
                   scan_result>>

\* The SDT read is Err: no service names.  On to the first PMT read.
ScanSdtFails ==
    /\ ScanFrame
    /\ scan_pc = "sdt" /\ ras_pc = "returned"
    /\ ras_result.kind # "ok"
    /\ sdt_read' = ras_result.kind
    /\ sdt_services' = <<>>
    /\ scan_pc' = "pmt"
    /\ RasEnter(nth_entry(pat_entries, 1).pmt_pid, PMT_TABLE_ID)
    /\ UNCHANGED <<scan_entry, pat_sections, pat_entries, pmt_reads,
                   scan_channels, scan_result>>

\* parse_sdt_sections panics.
ScanSdtPanics ==
    /\ ScanFrame
    /\ scan_pc = "sdt" /\ ras_pc = "returned"
    /\ ras_result.kind = "ok"
    /\ parse_sdt_sections(ras_result.sections).kind = "panic"
    /\ sdt_read' = "ok"
    /\ ScanReturn("panic", <<>>)
    /\ UNCHANGED <<scan_entry, pat_sections, pat_entries, sdt_services,
                   pmt_reads, scan_channels>>

ScanSdtParsed ==
    /\ ScanFrame
    /\ scan_pc = "sdt" /\ ras_pc = "returned"
    /\ ras_result.kind = "ok"
    /\ parse_sdt_sections(ras_result.sections).kind = "ok"
    /\ sdt_read' = "ok"
    /\ sdt_services' = parse_sdt_sections(ras_result.sections).services
    /\ scan_pc' = "pmt"
    /\ RasEnter(nth_entry(pat_entries, 1).pmt_pid, PMT_TABLE_ID)
    /\ UNCHANGED <<scan_entry, pat_sections, pat_entries, pmt_reads,
                   scan_channels, scan_result>>

\* The match on the PMT read: [kind, info].
pmt_of(result) ==
    IF result.kind = "ok" /\ result.sections # <<>>
    THEN parse_pmt(result.sections[1])
    ELSE [kind |-> result.kind, info |-> NoPids]

\* TRUE when the for loop over pat_entries has a next turn.
more_entries_mut(pushed, entries) == FALSE

more_entries(pushed, entries) == pushed < Len(entries)

\* The PMT is parsed, or not: the Channel of the PAT entry is pushed.
ScanPmtDone ==
    /\ ScanFrame
    /\ scan_pc = "pmt" /\ ras_pc = "returned"
    /\ pmt_of(ras_result).kind # "panic"
    /\ LET pat_entry == nth_entry(pat_entries, Len(scan_channels) + 1)
           name == find_name(sdt_services, pat_entry.service_id)
           chs  == Append(scan_channels,
                          scanned_channel(to_channel(scan_entry[1]), name,
                                          pmt_of(ras_result).info, pat_entry))
       IN  /\ scan_channels' = chs
           /\ pmt_reads' = Append(pmt_reads, pmt_of(ras_result).kind)
           /\ IF more_entries(Len(chs), pat_entries)
              THEN /\ RasEnter(nth_entry(pat_entries, Len(chs) + 1).pmt_pid,
                               PMT_TABLE_ID)
                   /\ UNCHANGED <<scan_pc, scan_result>>
              ELSE ScanReturn("ok", chs)
    /\ UNCHANGED <<scan_entry, pat_sections, pat_entries, sdt_read,
                   sdt_services>>

\* parse_pmt panics.
ScanPmtPanics ==
    /\ ScanFrame
    /\ scan_pc = "pmt" /\ ras_pc = "returned"
    /\ pmt_of(ras_result).kind = "panic"
    /\ ScanReturn("panic", <<>>)
    /\ UNCHANGED <<scan_entry, pat_sections, pat_entries, sdt_read,
                   sdt_services, pmt_reads, scan_channels>>

----------------------------------------------------------------------------
(* One call of scan_frequency on a tuned multiplex, or one call of         *)
(* parse_channels_conf: the two makers of Channels.                        *)

\* PAT of the multiplex: the NIT entry and two programs.
PatPrograms == <<<<0, 16>>, <<1, 256>>, <<2, 257>>>>

\* PID 0: the PAT in one section and in two, a PAT of the NIT entry alone, a
\* read of 3 bytes, a PAT of section_length 0 and a section of table 2.
PatFeed ==
    {MakePat(0, 0, PatPrograms),
     MakePat(0, 1, <<<<1, 256>>>>),
     MakePat(1, 1, <<<<0, 16>>, <<2, 257>>>>),
     MakePat(0, 0, <<<<0, 16>>>>),
     <<0, 176, 0>>,
     <<0, 176, 0, 0, 1, 193, 0, 0, 0, 0, 0, 0>>,
     MakePmt(1, <<>>)}

\* PID 17: an SDT that names service 1 "TV", an SDT of section_length 0 and
\* a section of table 0.
SdtFeed ==
    {MakeSdt(0, 0, <<<<1, <<84, 86>>>>>>),
     <<66, 176, 0, 0, 1, 193, 0, 0, 0, 1, 255, 0, 0, 0, 0>>,
     MakePat(0, 0, PatPrograms)}

\* PID 256: the PMT of program 1 (H.264 video, AAC audio), its first 14 bytes
\* and a PMT of section_length 0.
Pmt1Feed ==
    {MakePmt(1, <<<<27, 512>>, <<15, 513>>>>),
     Slice(MakePmt(1, <<<<27, 512>>, <<15, 513>>>>), 0, 14),
     <<2, 176, 0, 0, 1, 193, 0, 0, 224, 0, 240, 0, 0, 0, 0, 0>>}

\* PID 257: the PMT of program 2 (private data only) and a read of 2 bytes.
Pmt2Feed ==
    {MakePmt(2, <<<<6, 600>>>>),
     <<2, 176>>}

RichFeed ==
    [pid \in {PAT_PID, SDT_PID, 256, 257} |->
        CASE pid = PAT_PID -> PatFeed
          [] pid = SDT_PID -> SdtFeed
          [] pid = 256     -> Pmt1Feed
          [] pid = 257     -> Pmt2Feed]

scan_frequency ==
    /\ called = "none"
    /\ scan_pc = "idle"
    /\ \E entry \in ScanEntries : ScanEnter(entry)
    /\ ScanFrame

ScanInit ==
    /\ FnIdle
    /\ overflow_checks = TRUE
    /\ feed = RichFeed
    /\ EitIdle
    /\ TuneIdle
    /\ RasIdle
    /\ ScanIdle
    /\ MainIdle

\* parse_channels_conf, when scan_frequency is not the call.
read_channels_conf ==
    /\ scan_pc = "idle"
    /\ Call_parse_channels_conf

ScanNext ==
    \/ scan_frequency
    \/ RasOpenFails
    \/ RasOpen
    \/ RasDeadline
    \/ RasNoTimeLeft
    \/ RasTimeLeft
    \/ RasPollFails
    \/ RasPollTimesOut
    \/ RasPollReady
    \/ RasReadFails
    \/ RasReadShort
    \/ RasReadOtherTable
    \/ RasReadSection
    \/ ScanPatFails
    \/ ScanPatUnparsed
    \/ ScanPatParsed
    \/ ScanSdtFails
    \/ ScanSdtPanics
    \/ ScanSdtParsed
    \/ ScanPmtDone
    \/ ScanPmtPanics
    \/ read_channels_conf

SpecScan == ScanInit /\ [][ScanNext]_vars

----------------------------------------------------------------------------
(* main.rs: cmd_scan_channels from Tuner::open on.  The entries were       *)
(* parsed; the locals of a call that returned are gone when the loop takes *)
(* its result.                                                             *)

MaxEntries == 3

\* The table of Taiwan: the same parameters at frequencies 6 MHz apart.
TaiwanEntry(i) ==
    [delivery_system |-> "DVBT", frequency |-> 533000000 + 6000000 * (i - 1),
     bandwidth_hz |-> 6000000, code_rate_hp |-> "2/3", code_rate_lp |-> "NONE",
     modulation |-> "QAM/64", transmission_mode |-> "8K",
     guard_interval |-> "1/8", hierarchy |-> "NONE", inversion |-> "AUTO"]

\* Every multiplex sends a PAT of one program, an SDT and a PMT, or a
\* section of section_length 0 in their place; the PAT may hold no program,
\* a read of PID 0 may give 3 bytes, and PID 17 carries the SDT of another
\* transport stream (table 0x46) too.
SmallFeed ==
    [pid \in {PAT_PID, SDT_PID, 256} |->
        CASE pid = PAT_PID ->
               {MakePat(0, 0, <<<<0, 16>>, <<1, 256>>>>),
                MakePat(0, 0, <<<<0, 16>>>>),
                <<0, 176, 0, 0, 1, 193, 0, 0, 0, 0, 0, 0>>,
                <<0, 176, 0>>}
          [] pid = SDT_PID ->
               {MakeSdt(0, 0, <<<<1, <<84, 86>>>>>>),
                <<66, 176, 0, 0, 1, 193, 0, 0, 0, 1, 255, 0, 0, 0, 0>>,
                MakeSection(70, 1, 0, 0, <<0, 1, 255>>)}
          [] pid = 256 ->
               {MakePmt(1, <<<<27, 512>>, <<15, 513>>>>),
                <<2, 176, 0, 0, 1, 193, 0, 0, 224, 0, 240, 0, 0, 0, 0, 0>>}]

\* The index of the entry the loop takes after a tune failure at `i`
\* (0-based) of `n` entries, were the `continue` a `break`.
continue_at_mut(i, n) == n

\* `continue`: the entry after it.
continue_at(i, n) == i + 1

\* The locals of tune are gone; the frontend keeps what it was sent.
TuneForget ==
    /\ tune_pc' = "idle"
    /\ tune_channel' = <<>>
    /\ reads' = 0
    /\ lock_reads' = 0
    /\ slept_ms' = 0
    /\ last_status' = 0
    /\ tune_result' = ""
    /\ fe_log' = fe_log

\* The locals of scan_frequency and of its reads are gone.
ScanForget ==
    /\ scan_pc' = "idle"
    /\ scan_entry' = <<>>
    /\ pat_sections' = <<>>
    /\ pat_entries' = <<>>
    /\ sdt_read' = ""
    /\ sdt_services' = <<>>
    /\ pmt_reads' = <<>>
    /\ scan_channels' = <<>>
    /\ scan_result' = [kind |-> "", channels |-> <<>>]
    /\ ras_pc' = "idle"
    /\ ras_table_id' = 0
    /\ ras_pid' = 0
    /\ ras_elapsed' = 0
    /\ ras_sections' = {}
    /\ expected_last' = <<>>
    /\ ras_exit' = ""
    /\ ras_result' = [kind |-> "", sections |-> <<>>]
    /\ demux_open' = demux_open

MainFrame == UNCHANGED <<fnVars, envVars, eitVars>>

\* tuner::Tuner::open(adapter) is Ok: the frontend is opened.
MainOpenTuner ==
    /\ MainFrame
    /\ main_pc = "open"
    /\ fe_log' = Append(fe_log, "OPEN")
    /\ main_pc' = "loop"
    /\ UNCHANGED <<tune_pc, tune_channel, reads, lock_reads, slept_ms,
                   last_status, tune_result>>
    /\ UNCHANGED <<rasVars, scanVars, scan_entries, entry_index, all_channels,
                   written, main_exit, tuned, visits>>

\* Tuner::open is Err: process::exit(1).
MainOpenTunerFails ==
    /\ MainFrame
    /\ main_pc = "open"
    /\ main_pc' = "exit"
    /\ main_exit' = "Failed to open tuner"
    /\ UNCHANGED <<tuneVars, rasVars, scanVars, scan_entries, entry_index,
                   all_channels, written, tuned, visits>>

\* The head of the for loop: entry.to_channel() and tuner.tune(..).
MainTune ==
    /\ MainFrame
    /\ main_pc = "loop"
    /\ entry_index < Len(scan_entries)
    /\ TuneEnter(to_channel(scan_entries[entry_index + 1]))
    /\ tuned' = Append(tuned, scan_entries[entry_index + 1].frequency)
    /\ main_pc' = "tune"
    /\ UNCHANGED <<rasVars, scanVars, scan_entries, entry_index, all_channels,
                   written, main_exit, visits>>

\* if let Err(e) = tuner.tune(..) { ..; continue; }
MainTuneFailed ==
    /\ MainFrame
    /\ main_pc = "tune" /\ tune_pc = "returned"
    /\ tune_result # "Ok"
    /\ visits' = Append(visits, [outcome |-> "Skipped", channels |-> <<>>])
    /\ entry_index' = continue_at(entry_index, Len(scan_entries))
    /\ main_pc' = "loop"
    /\ TuneForget
    /\ UNCHANGED <<rasVars, scanVars, scan_entries, all_channels, written,
                   main_exit, tuned>>

\* tune returned Ok: scan::scan_frequency(adapter, entry).
MainScan ==
    /\ MainFrame
    /\ main_pc = "tune" /\ tune_pc = "returned"
    /\ tune_result = "Ok"
    /\ ScanEnter(scan_entries[entry_index + 1])
    /\ main_pc' = "scan"
    /\ TuneForget
    /\ UNCHANGED <<scan_entries, entry_index, all_channels, written, main_exit,
                   tuned, visits>>

\* Ok(channels) => all_channels.extend(channels)
MainScanOk ==
    /\ MainFrame
    /\ main_pc = "scan" /\ scan_pc = "returned"
    /\ scan_result.kind = "ok"
    /\ all_channels' = all_channels \o scan_result.channels
    /\ visits' = Append(visits, [outcome  |-> "Found",
                                 channels |-> scan_result.channels])
    /\ entry_index' = entry_index + 1
    /\ main_pc' = "loop"
    /\ ScanForget
    /\ UNCHANGED <<tuneVars, scan_entries, written, main_exit, tuned>>

\* Err(e) => eprintln!("  Scan error: {e}")
MainScanErr ==
    /\ MainFrame
    /\ main_pc = "scan" /\ scan_pc = "returned"
    /\ scan_result.kind \notin {"ok", "panic"}
    /\ visits' = Append(visits, [outcome |-> "Scan error", channels |-> <<>>])
    /\ entry_index' = entry_index + 1
    /\ main_pc' = "loop"
    /\ ScanForget
    /\ UNCHANGED <<tuneVars, scan_entries, all_channels, written, main_exit,
                   tuned>>

\* A panic in scan_frequency unwinds main: the process is over.
MainScanPanics ==
    /\ MainFrame
    /\ main_pc = "scan" /\ scan_pc = "returned"
    /\ scan_result.kind = "panic"
    /\ main_pc' = "exit"
    /\ main_exit' = "panic"
    /\ ScanForget
    /\ UNCHANGED <<tuneVars, scan_entries, entry_index, all_channels, written,
                   tuned, visits>>

\* if all_channels.is_empty() { println!("No channels found."); return; }
MainNoChannels ==
    /\ MainFrame
    /\ main_pc = "loop"
    /\ ~(entry_index < Len(scan_entries))
    /\ all_channels = <<>>
    /\ main_pc' = "exit"
    /\ main_exit' = "No channels found"
    /\ UNCHANGED <<tuneVars, rasVars, scanVars, scan_entries, entry_index,
                   all_channels, written, tuned, visits>>

\* The content of etc/channels.conf: a line and a line feed per Channel.
conf_content(chs) ==
    write_lines([i \in 1..Len(chs) |-> channel_to_zap_line(chs[i])])

\* std::fs::write(output_path, &content) is Ok.
MainWrite ==
    /\ MainFrame
    /\ main_pc = "loop"
    /\ ~(entry_index < Len(scan_entries))
    /\ all_channels # <<>>
    /\ written' = conf_content(all_channels)
    /\ main_pc' = "exit"
    /\ main_exit' = "Wrote"
    /\ UNCHANGED <<tuneVars, rasVars, scanVars, scan_entries, entry_index,
                   all_channels, tuned, visits>>

\* create_dir_all, rename or write fails: process::exit(1).
MainWriteFails ==
    /\ MainFrame
    /\ main_pc = "loop"
    /\ ~(entry_index < Len(scan_entries))
    /\ all_channels # <<>>
    /\ main_pc' = "exit"
    /\ main_exit' = "Failed to write"
    /\ UNCHANGED <<tuneVars, rasVars, scanVars, scan_entries, entry_index,
                   all_channels, written, tuned, visits>>

Init ==
    /\ FnIdle
    /\ overflow_checks = TRUE
    /\ feed = SmallFeed
    /\ EitIdle
    /\ TuneIdle
    /\ RasIdle
    /\ ScanIdle
    /\ main_pc = "open"
    /\ \E n \in 0..MaxEntries : scan_entries = [i \in 1..n |-> TaiwanEntry(i)]
    /\ entry_index = 0
    /\ all_channels = <<>>
    /\ written = <<>>
    /\ main_exit = ""
    /\ tuned = <<>>
    /\ visits = <<>>

\* The Channel of a ScanEntry has a word of the vocabulary in each enum
\* field: TuneUnknownEnum is no step of this loop.
Next ==
    \/ MainOpenTuner
    \/ MainOpenTunerFails
    \/ MainTune
    \/ TuneClearFails
    \/ TuneClear
    \/ TuneBatchFails
    \/ TuneBatch
    \/ TuneStatusFails
    \/ TuneLocked
    \/ TuneNotLocked
    \/ TuneTimesOut
    \/ MainTuneFailed
    \/ MainScan
    \/ RasOpenFails
    \/ RasOpen
    \/ RasDeadline
    \/ RasNoTimeLeft
    \/ RasTimeLeft
    \/ RasPollFails
    \/ RasPollTimesOut
    \/ RasPollReady
    \/ RasReadFails
    \/ RasReadShort
    \/ RasReadOtherTable
    \/ RasReadSection
    \/ ScanPatFails
    \/ ScanPatUnparsed
    \/ ScanPatParsed
    \/ ScanSdtFails
    \/ ScanSdtPanics
    \/ ScanSdtParsed
    \/ ScanPmtDone
    \/ ScanPmtPanics
    \/ MainScanOk
    \/ MainScanErr
    \/ MainScanPanics
    \/ MainNoChannels
    \/ MainWrite
    \/ MainWriteFails

Spec == Init /\ [][Next]_vars

----------------------------------------------------------------------------
(* One call of Tuner::tune on a frontend that was tuned before or not.     *)

\* The Channels of the scan entries, and one read from a channels.conf
\* whose modulation is no word of the vocabulary.
TuneChannels ==
    {to_channel(e) : e \in ScanEntries}
    \cup {[to_channel(e) EXCEPT !.modulation = <<"QAM_512">>] : e \in ScanEntries}

tune ==
    /\ tune_pc = "idle"
    /\ \E channel \in TuneChannels : TuneEnter(channel)
    /\ TuneFrame

TuneInit ==
    /\ FnIdle
    /\ overflow_checks = TRUE
    /\ feed = NoFeed
    /\ EitIdle
    /\ RasIdle
    /\ ScanIdle
    /\ MainIdle
    /\ tune_pc = "idle"
    /\ tune_channel = <<>>
    /\ reads = 0
    /\ lock_reads = 0
    /\ slept_ms = 0
    /\ last_status = 0
    /\ fe_log \in {<<>>, <<"CLEAR", "TUNE">>}
    /\ tune_result = ""

TuneNext ==
    \/ tune
    \/ TuneClearFails
    \/ TuneClear
    \/ TuneUnknownEnum
    \/ TuneBatchFails
    \/ TuneBatch
    \/ TuneStatusFails
    \/ TuneLocked
    \/ TuneNotLocked
    \/ TuneTimesOut

SpecTune == TuneInit /\ [][TuneNext]_vars

----------------------------------------------------------------------------
(* The two collection loops under fairness: one call of read_events or one *)
(* call of read_all_sections for the PAT.  A step of the loop is taken     *)
(* when one can be (the thread runs), and the clock does not stand still   *)
(* for ever: of the readings of `start.elapsed()` at the head of the loop, *)
(* some show a later time.                                                 *)

\* read_all_sections(adapter, PAT_PID, PAT_TABLE_ID, 5), called directly.
read_pat_sections ==
    /\ ras_pc = "idle"
    /\ eit_pc = "idle"
    /\ RasEnter(PAT_PID, PAT_TABLE_ID)
    /\ RasFrame

\* PID 18: a section of two events, the same events in another section, a
\* section of another service and two copies of it that do not parse (one
\* with last_section_number 5, one cut short of its section_length), a
\* section of section_length 0, 17 bytes, and a section of another table.
LoopsEitFeed ==
    {MakeEitSection(EIT_PRESENT_FOLLOWING_ACTUAL, 1, 0, 1,
                    <<MakeEitEvent(1, 40587, 0, 1), MakeEitEvent(2, 40587, 1, 1)>>),
     MakeEitSection(EIT_SCHEDULE_ACTUAL_MIN, 1, 0, 0,
                    <<MakeEitEvent(1, 40587, 0, 1), MakeEitEvent(2, 40587, 1, 1)>>),
     MakeEitSection(EIT_PRESENT_FOLLOWING_ACTUAL, 2, 0, 1,
                    <<MakeEitEvent(1, 40587, 1, 1)>>),
     MakeEitSection(EIT_PRESENT_FOLLOWING_ACTUAL, 2, 0, 5,
                    <<MakeEitEvent(1, 40587, 1, 1)>>),
     SubSeq(MakeEitSection(EIT_PRESENT_FOLLOWING_ACTUAL, 2, 0, 1,
                           <<MakeEitEvent(1, 40587, 1, 1)>>), 1, 26),
     <<EIT_SCHEDULE_ACTUAL_MIN, 240, 0, 0, 1, 193, 1, 1,
       0, 0, 0, 0, 0, 0, 0, 0, 0, 0>>,
     [i \in 1..17 |-> IF i = 1 THEN EIT_PRESENT_FOLLOWING_ACTUAL ELSE 0],
     MakeEitSection(66, 1, 0, 0, <<>>)}

LoopsFeed ==
    [pid \in {PAT_PID, EIT_PID} |->
        IF pid = PAT_PID THEN PatFeed ELSE LoopsEitFeed]

LoopsInit ==
    /\ FnIdle
    /\ overflow_checks \in BOOLEAN
    /\ feed = LoopsFeed
    /\ EitIdle
    /\ TuneIdle
    /\ RasIdle
    /\ ScanIdle
    /\ MainIdle

\* The steps of read_all_sections.
RasNext ==
    \/ RasOpenFails
    \/ RasOpen
    \/ RasDeadline
    \/ RasNoTimeLeft
    \/ RasTimeLeft
    \/ RasPollFails
    \/ RasPollTimesOut
    \/ RasPollReady
    \/ RasReadFails
    \/ RasReadShort
    \/ RasReadOtherTable
    \/ RasReadSection

LoopsNext ==
    \/ read_pat_sections
    \/ RasNext
    \/ (ras_pc = "idle" /\ EitNext)

\* A reading of the clock at the head of the loop that shows a later time.
EitTimePasses == (EitTimeLeft \/ EitNoTimeLeft) /\ elapsed' > elapsed

RasTimePasses == (RasTimeLeft \/ RasNoTimeLeft) /\ ras_elapsed' > ras_elapsed

SpecLoops ==
    /\ LoopsInit
    /\ [][LoopsNext]_vars
    /\ WF_vars(LoopsNext)
    /\ SF_vars(EitTimePasses)
    /\ SF_vars(RasTimePasses)

----------------------------------------------------------------------------
(* C5: the text decode_dvb_text returns holds no C0 control other than     *)
(* U+000A, no U+007F, no C1 control and no code point of U+E080..U+E09F,   *)
(* and it holds every U+000A of the decoded text.                          *)

ForbiddenCp == (0..9) \cup (11..31) \cup {127} \cup (128..159) \cup (57472..57503)

CountCp(s, cp) == Cardinality({i \in 1..Len(s) : s[i] = cp})

C5_TextHasNoControls ==
    called = "decode_dvb_text" =>
        /\ \A i \in 1..Len(ret[1]) : ret[1][i] \notin ForbiddenCp
        /\ arg[1] # <<>> => CountCp(ret[1], 10) = CountCp(decode_raw(arg[1]), 10)

\* A control character was decoded and removed, and a line feed kept.
C5_Witness ==
    /\ called = "decode_dvb_text"
    /\ arg[1] # <<>>
    /\ \E i \in 1..Len(decode_raw(arg[1])) : decode_raw(arg[1])[i] \in ForbiddenCp
    /\ \E i \in 1..Len(ret[1]) : ret[1][i] = 10

(* C2: an event parse_eit_event accepts has 0 <= duration <= 86400 and     *)
(* start_time >= 0, whatever the date and BCD bytes of its header.         *)

C2_AcceptedEventInRange ==
    (called = "parse_eit_event" /\ ret[1].ok) =>
        /\ 0 <= ret[1].event.duration
        /\ ret[1].event.duration <= 86400
        /\ ret[1].event.start_time >= 0

\* An accepted event whose header holds a non-decimal BCD nibble, and one
\* at the duration's limit.
C2_Witness ==
    /\ called = "parse_eit_event"
    /\ ret[1].ok
    /\ ret[1].event.duration = 86400
    /\ At(arg[1], 4) = 255

(* C4: the line channel_to_zap_line writes for a Channel, parsed by        *)
(* parse_channels_conf, gives that one Channel back, all 13 fields equal.  *)

C4_RoundTrip ==
    called = "roundtrip" => ret[1] = [ok |-> TRUE, channels |-> <<arg[1]>>]

(* C10: parse_channels_conf passes over the lines that are blank or start  *)
(* with "#" once trimmed, and fails the whole file, naming the 1-based     *)
(* number of the line, at the first other line that has not 13 fields or   *)
(* whose frequency, video_pid, audio_pid or service_id is no decimal       *)
(* integer of its type; no Channel is returned then.                       *)

Skipped(line) == trim(line) = <<>> \/ Head(trim(line)) = "#"

FieldCount(line) == 1 + Cardinality({i \in 1..Len(line) : line[i] = ":"})

IsDecimal(text, max) ==
    LET ds == IF text # <<>> /\ text[1] = "+" THEN Tail(text) ELSE text
    IN  /\ ds # <<>>
        /\ \A i \in 1..Len(ds) : IsDigit(ds[i])
        /\ parse_digits(ds, 0, max) # -1

Malformed(line) ==
    /\ ~Skipped(line)
    /\ \/ FieldCount(trim(line)) # 13
       \/ LET f == split(trim(line), ":")
          IN  \/ ~IsDecimal(f[2], U64_MODEL_MAX)
              \/ ~IsDecimal(f[11], U16_MAX)
              \/ ~IsDecimal(f[12], U16_MAX)
              \/ ~IsDecimal(f[13], U16_MAX)

C10_ConfErrors ==
    called = "parse_channels_conf" =>
        LET bad == {i \in 1..Len(arg[1]) : Malformed(arg[1][i])} IN
        IF bad = {}
        THEN /\ ret[1].ok
             /\ Len(ret[1].channels)
                  = Cardinality({i \in 1..Len(arg[1]) : ~Skipped(arg[1][i])})
        ELSE /\ ~ret[1].ok
             /\ DOMAIN ret[1] = {"ok", "line", "err"}
             /\ ret[1].line = CHOOSE i \in bad : \A j \in bad : i <= j

\* A file whose third line is malformed, after a comment and a good line.
C10_Witness ==
    /\ called = "parse_channels_conf"
    /\ Len(arg[1]) = 3
    /\ Skipped(arg[1][1]) /\ arg[1][1] # <<>>
    /\ ~Skipped(arg[1][2]) /\ ~Malformed(arg[1][2])
    /\ Malformed(arg[1][3])
    /\ ~ret[1].ok /\ ret[1].line = 3

(* C1: the list read_events returns is sorted non-decreasing by start_time *)
(* and holds no two events of the same (service_id, event_id), whatever    *)
(* the demux delivered during the call.                                    *)

C1_SortedDistinct ==
    (eit_pc = "returned" /\ eit_result[1].kind = "ok") =>
        LET events == eit_result[1].events IN
        /\ \A i \in 1..(Len(events) - 1) :
              events[i].start_time <= events[i + 1].start_time
        /\ \A i, j \in 1..Len(events) :
              (/\ events[i].service_id = events[j].service_id
               /\ events[i].event_id = events[j].event_id) => i = j

\* A call that returned three events or more, after the sort moved an event
\* and seen_events refused one.
C1_Witness ==
    /\ eit_pc = "returned"
    /\ eit_result[1].kind = "ok"
    /\ Len(eit_result[1].events) >= 3
    /\ eit_result[1].events # all_events
    /\ dropped > 0


(* C9: after the tuning batch Tuner::tune reads the status at most 100     *)
(* times and sleeps 100 ms after each read without lock; it returns Ok at  *)
(* the first read whose status has FE_HAS_LOCK, and the timeout error      *)
(* exactly when 100 reads were done and none had the bit.                  *)

C9_LockPolling ==
    /\ reads <= 100
    /\ lock_reads <= 1
    /\ slept_ms = 100 * (reads - lock_reads)
    /\ reads > 0 => (fe_log # <<>> /\ fe_log[Len(fe_log)] = "TUNE")
    /\ tune_pc = "poll" => lock_reads = 0
    /\ tune_result = "Ok" <=>
          (tune_pc = "returned" /\ lock_reads = 1 /\ (last_status \div 16) % 2 = 1)
    /\ tune_result = "Tuning timed out" <=>
          (tune_pc = "returned" /\ reads = 100 /\ lock_reads = 0)

\* A lock at the 100th read, after 99 reads without it.
C9_Witness ==
    /\ tune_result = "Ok"
    /\ reads = 100
    /\ slept_ms = 9900
    /\ last_status = 31

(* C8: read_all_sections returns the timeout error exactly when the        *)
(* deadline passes with no section accepted; when the deadline passes with *)
(* one section or more, fewer than last_section_number + 1, it returns Ok  *)
(* with the sections collected, each once, in the order of their numbers.  *)

C8_SectionTimeout ==
    ras_exit # "" =>
        /\ ras_result.kind = "timeout" <=>
              (ras_exit = "deadline" /\ ras_sections = {})
        /\ ras_exit = "deadline" => ras_elapsed >= 5000
        /\ (ras_exit = "deadline" /\ ras_sections # {}) =>
              /\ Cardinality(ras_sections) < expected_last[1] + 1
              /\ ras_result.kind = "ok"
              /\ Len(ras_result.sections) = Cardinality(ras_sections)
              /\ {ras_result.sections[i] : i \in 1..Len(ras_result.sections)}
                    = {p[2] : p \in ras_sections}
              /\ \A i \in 1..(Len(ras_result.sections) - 1) :
                    ras_result.sections[i][7] < ras_result.sections[i + 1][7]

\* The deadline passed with the second of two PAT sections alone.
C8_Witness ==
    /\ ras_exit = "deadline"
    /\ expected_last = <<1>>
    /\ ras_result.kind = "ok"
    /\ Len(ras_result.sections) = 1
    /\ ras_result.sections[1][7] = 1

(* C3: when scan_frequency returns Ok, its Channels are as many as the     *)
(* entries of nonzero program_number in the PAT sections it read, whether  *)
(* the SDT and the PMTs were read, timed out or did not parse.             *)

\* The entries of nonzero program_number of one PAT section.
ProgramsOf(data) ==
    IF Len(data) < 12 \/ Len(data) < 3 + (data[2] % 16) * 256 + data[3] THEN 0
    ELSE LET entries_end == 3 + (data[2] % 16) * 256 + data[3] - 4
         IN  Cardinality({k \in 0..((entries_end - 8) \div 4 - 1) :
                 data[9 + 4 * k] # 0 \/ data[10 + 4 * k] # 0})

RECURSIVE ProgramsIn(_)
ProgramsIn(secs) ==
    IF secs = <<>> THEN 0 ELSE ProgramsOf(Head(secs)) + ProgramsIn(Tail(secs))

C3_ChannelPerProgram ==
    (scan_pc = "returned" /\ scan_result.kind = "ok") =>
        /\ Len(scan_result.channels) = ProgramsIn(pat_sections)
        /\ Len(pmt_reads) = Len(scan_result.channels)

\* Two programs, the SDT timed out, one PMT parsed and one timed out.
C3_Witness ==
    /\ scan_pc = "returned"
    /\ scan_result.kind = "ok"
    /\ Len(scan_result.channels) = 2
    /\ Len(pat_sections) = 2
    /\ sdt_read = "timeout"
    /\ pmt_reads = <<"PMT too short", "timeout">>

(* C6 as stated: every Channel parse_channels_conf or scan_frequency made  *)
(* has a service_id other than 0 and enum fields of the vocabularies.      *)

ValidChannel(ch) == ch.service_id # 0 /\ EnumsInVocab(ch)

ConfChannels ==
    IF called = "parse_channels_conf" /\ ret[1].ok
    THEN {ret[1].channels[i] : i \in 1..Len(ret[1].channels)}
    ELSE {}

ScanChannels == {scan_channels[i] : i \in 1..Len(scan_channels)}

C6_AllChannelsValid == \A ch \in ConfChannels \cup ScanChannels : ValidChannel(ch)

(* C6: every Channel scan_frequency made has a service_id other than 0 and *)
(* enum fields of the vocabularies; a Channel parse_channels_conf made     *)
(* holds the fields of its line: a service_id of 0..65535 and the enum     *)
(* fields as written, words of the vocabulary or not.                      *)

KeptLines(ls) == SelectSeq(ls, LAMBDA l : ~Skipped(l))

C6_ScanChannelsValid ==
    /\ \A ch \in ScanChannels : ValidChannel(ch)
    /\ (called = "parse_channels_conf" /\ ret[1].ok) =>
          \A i \in 1..Len(ret[1].channels) :
              LET ch == ret[1].channels[i]
                  f  == split(trim(KeptLines(arg[1])[i]), ":")
              IN  /\ ch.service_id \in 0..65535
                  /\ <<ch.inversion, ch.bandwidth, ch.fec_hp, ch.fec_lp,
                       ch.modulation, ch.transmission_mode, ch.guard_interval,
                       ch.hierarchy>> = SubSeq(f, 3, 10)

\* The Channels of an entry of unknown tokens: one named by the SDT, one not.
C6_Witness ==
    /\ scan_pc = "returned"
    /\ scan_result.kind = "ok"
    /\ scan_entry[1].modulation = "QAM/512"
    /\ Len(scan_result.channels) = 2
    /\ scan_result.channels[1].name = <<"T", "V">>
    /\ scan_result.channels[2].name = <<"S", "e", "r", "v", "i", "c", "e", " ", "2">>
    /\ scan_result.channels[2].modulation = <<"QAM_AUTO">>

(* C7: in the loop of cmd_scan_channels a tune failure or an Err of        *)
(* scan_frequency ends the visit of that entry alone: the entries are      *)
(* tuned one after the other, each one whose tune is Ok is scanned, and    *)
(* when the loop is over every entry was visited, all_channels holds the   *)
(* Channels of every scan that returned Ok, and they are what is written.  *)

RECURSIVE FoundIn(_)
FoundIn(vs) ==
    IF vs = <<>> THEN <<>> ELSE Head(vs).channels \o FoundIn(Tail(vs))

LoopIsOver == main_exit \in {"Wrote", "No channels found", "Failed to write"}

C7_VisitsGoOn ==
    /\ Len(tuned) <= Len(scan_entries)
    /\ \A i \in 1..Len(tuned) : tuned[i] = scan_entries[i].frequency
    /\ Len(visits) <= Len(tuned)
    /\ main_pc = "loop" => Len(visits) = Len(tuned)
    /\ LoopIsOver =>
          /\ Len(tuned) = Len(scan_entries)
          /\ Len(visits) = Len(scan_entries)
    /\ all_channels = FoundIn(visits)
    /\ \A i \in 1..Len(visits) :
          \A k \in 1..Len(visits[i].channels) :
              visits[i].channels[k].frequency = scan_entries[i].frequency
    /\ main_exit = "Wrote" =>
          /\ all_channels # <<>>
          /\ lines(written)
                = [i \in 1..Len(all_channels) |-> channel_to_zap_line(all_channels[i])]
    /\ main_exit # "Wrote" => written = <<>>

\* Three entries: the tune of the first fails, the scan of the second
\* returns Err, the third gives a Channel, which is written.
C7_Witness ==
    /\ main_exit = "Wrote"
    /\ Len(scan_entries) = 3
    /\ visits[1].outcome = "Skipped"
    /\ visits[2].outcome = "Scan error"
    /\ visits[3].outcome = "Found"
    /\ Len(all_channels) = 1
    /\ all_channels[1].frequency = 545000000

(* C11: each of the seven dvbv5-to-zap conversions gives, for a token of   *)
(* its table, the zap spelling of that token, for any other input the      *)
(* _AUTO word of the family (HIERARCHY_NONE for hierarchy), and so always  *)
(* a word of the vocabulary of the family.                                 *)

\* The tables of the zap and dvbv5 spellings: <<dvbv5 token, zap word>>.
ZapSpellings(family) ==
    CASE family = "inversion" ->
           {<<"AUTO", "INVERSION_AUTO">>, <<"ON", "INVERSION_ON">>,
            <<"OFF", "INVERSION_OFF">>}
      [] family = "fec" ->
           {<<"NONE", "FEC_NONE">>, <<"1/2", "FEC_1_2">>, <<"2/3", "FEC_2_3">>,
            <<"3/4", "FEC_3_4">>, <<"4/5", "FEC_4_5">>, <<"5/6", "FEC_5_6">>,
            <<"6/7", "FEC_6_7">>, <<"7/8", "FEC_7_8">>, <<"8/9", "FEC_8_9">>,
            <<"AUTO", "FEC_AUTO">>}
      [] family = "modulation" ->
           {<<"QPSK", "QPSK">>, <<"QAM/16", "QAM_16">>, <<"QAM/32", "QAM_32">>,
            <<"QAM/64", "QAM_64">>, <<"QAM/128", "QAM_128">>,
            <<"QAM/256", "QAM_256">>, <<"QAM/AUTO", "QAM_AUTO">>}
      [] family = "transmission" ->
           {<<"1K", "TRANSMISSION_MODE_1K">>, <<"2K", "TRANSMISSION_MODE_2K">>,
            <<"4K", "TRANSMISSION_MODE_4K">>, <<"8K", "TRANSMISSION_MODE_8K">>,
            <<"16K", "TRANSMISSION_MODE_16K">>,
            <<"32K", "TRANSMISSION_MODE_32K">>,
            <<"AUTO", "TRANSMISSION_MODE_AUTO">>}
      [] family = "guard" ->
           {<<"1/32", "GUARD_INTERVAL_1_32">>, <<"1/16", "GUARD_INTERVAL_1_16">>,
            <<"1/8", "GUARD_INTERVAL_1_8">>, <<"1/4", "GUARD_INTERVAL_1_4">>,
            <<"AUTO", "GUARD_INTERVAL_AUTO">>}
      [] family = "hierarchy" ->
           {<<"NONE", "HIERARCHY_NONE">>, <<"1", "HIERARCHY_1">>,
            <<"2", "HIERARCHY_2">>, <<"4", "HIERARCHY_4">>,
            <<"AUTO", "HIERARCHY_AUTO">>}
      [] family = "bandwidth" -> {}

BandwidthSpellings ==
    {<<5000000, "BANDWIDTH_5_MHZ">>, <<6000000, "BANDWIDTH_6_MHZ">>,
     <<7000000, "BANDWIDTH_7_MHZ">>, <<8000000, "BANDWIDTH_8_MHZ">>,
     <<10000000, "BANDWIDTH_10_MHZ">>, <<1712000, "BANDWIDTH_1_712_MHZ">>}

ZapDefault(family) ==
    CASE family = "inversion"    -> "INVERSION_AUTO"
      [] family = "bandwidth"    -> "BANDWIDTH_AUTO"
      [] family = "fec"          -> "FEC_AUTO"
      [] family = "modulation"   -> "QAM_AUTO"
      [] family = "transmission" -> "TRANSMISSION_MODE_AUTO"
      [] family = "guard"        -> "GUARD_INTERVAL_AUTO"
      [] family = "hierarchy"    -> "HIERARCHY_NONE"

ZapVocab(family) ==
    CASE family = "inversion"    -> InversionVocab
      [] family = "bandwidth"    -> BandwidthVocab
      [] family = "fec"          -> FecVocab
      [] family = "modulation"   -> ModulationVocab
      [] family = "transmission" -> TransmissionVocab
      [] family = "guard"        -> GuardVocab
      [] family = "hierarchy"    -> HierarchyVocab

\* The zap words the tables give for the argument: one, or none.
ZapKnown(a) ==
    IF a.family = "bandwidth"
    THEN {p[2] : p \in {q \in BandwidthSpellings : q[1] = a.hz}}
    ELSE {p[2] : p \in {q \in ZapSpellings(a.family) : q[1] = a.token}}

C11_ZapTotal ==
    called = "dvbv5_to_zap" =>
        /\ Len(ret) = 1
        /\ Len(ret[1]) = 1
        /\ ret[1][1] \in ZapVocab(arg[1].family)
        /\ IF ZapKnown(arg[1]) # {}
           THEN ZapKnown(arg[1]) = {ret[1][1]}
           ELSE ret[1][1] = ZapDefault(arg[1].family)

\* An unknown hierarchy token gives HIERARCHY_NONE, not an _AUTO word.
C11_Witness ==
    /\ called = "dvbv5_to_zap"
    /\ arg[1].family = "hierarchy"
    /\ arg[1].token = "8"
    /\ ret = << <<"HIERARCHY_NONE">> >>

(* C12: parse_sdt_sections returns a list of (service_id, name), without   *)
(* panic, for any list of buffers, whatever their length, section_length   *)
(* and descriptor lengths.                                                 *)

C12_SdtNeverFails ==
    called = "parse_sdt_sections" => ret[1].kind = "ok"

(* C13: read_all_sections reads on only while the section numbers it holds *)
(* are fewer than last_section_number + 1: it stops at the section that    *)
(* brings them to that count, not one later; the buffers it returns are in *)
(* ascending order of section_number.                                      *)

C13_StopsWhenComplete ==
    /\ (ras_pc \in {"loop", "poll", "read"} /\ ras_sections # {}) =>
          Cardinality(ras_sections) < expected_last[1] + 1
    /\ ras_exit = "complete" =>
          /\ Cardinality(ras_sections) >= expected_last[1] + 1
          /\ Cardinality({p[1] : p \in ras_sections}) = Cardinality(ras_sections)
          /\ ras_result.kind = "ok"
    /\ ras_result.kind = "ok" =>
          \A i \in 1..(Len(ras_result.sections) - 1) :
              ras_result.sections[i][7] < ras_result.sections[i + 1][7]

\* A PAT of two sections, both read: the read is over with 0 before 1.
C13_Witness ==
    /\ ras_exit = "complete"
    /\ expected_last = <<1>>
    /\ Cardinality(ras_sections) = 2
    /\ Len(ras_result.sections) = 2
    /\ ras_result.sections[1][7] = 0
    /\ ras_result.sections[2][7] = 1
    /\ ras_elapsed < 5000

(* C14: what read_all_sections holds and returns are buffers of 8 bytes or *)
(* more whose byte 0 is the table_id asked for, one at most for a          *)
(* section_number, and a buffer once kept for its section_number stays:    *)
(* no later section of that number takes its place.                        *)

C14_FirstKept ==
    [][/\ ras_pc' \notin {"open", "idle"} => ras_sections \subseteq ras_sections'
       /\ \A p \in ras_sections' :
             /\ Len(p[2]) >= 8
             /\ p[2][1] = ras_table_id'
             /\ p[2][7] = p[1]
       /\ \A p, q \in ras_sections' : p[1] = q[1] => p = q
       /\ ras_result'.kind = "ok" =>
             /\ Len(ras_result'.sections) = Cardinality(ras_sections')
             /\ {ras_result'.sections[i] : i \in 1..Len(ras_result'.sections)}
                   = {p[2] : p \in ras_sections'}]_vars

\* Section 0 of a PAT of two sections was kept; the section read last, a
\* PAT of one section, has the number 0 too and is not in the result.
C14_Witness ==
    /\ ras_exit = "complete"
    /\ ras_table_id = PAT_TABLE_ID
    /\ expected_last = <<0>>
    /\ ras_result.kind = "ok"
    /\ ras_result.sections = <<MakePat(0, 1, <<<<1, 256>>>>)>>

(* C15: in a call of scan_frequency a demux filter is opened only when no  *)
(* other is open: the filter of the PAT first, the filter of the SDT once  *)
(* the PAT is read and parsed and before any PMT, and the filter of a PMT  *)
(* once the SDT read is over, for the PAT entries one after the other in   *)
(* the order of the PAT.                                                   *)

C15_PatSdtPmt ==
    [][demux_open' > demux_open =>
          /\ demux_open = 0
          /\ demux_open' = 1
          /\ ras_pid' = ras_pid /\ ras_table_id' = ras_table_id
          /\ \/ /\ ras_pid = 0 /\ ras_table_id = 0
                /\ pat_sections = <<>> /\ pat_entries = <<>>
                /\ sdt_read = "" /\ pmt_reads = <<>>
             \/ /\ ras_pid = 17 /\ ras_table_id = 66
                /\ pat_entries # <<>>
                /\ sdt_read = "" /\ pmt_reads = <<>>
             \/ /\ ras_table_id = 2
                /\ sdt_read # ""
                /\ Len(pmt_reads) < Len(pat_entries)
                /\ ras_pid = pat_entries[Len(pmt_reads) + 1].pmt_pid]_vars

\* The PAT, the SDT and the PMTs of PIDs 256 and 257 were read.
C15_Witness ==
    /\ scan_pc = "returned"
    /\ scan_result.kind = "ok"
    /\ sdt_read = "ok"
    /\ pmt_reads = <<"ok", "ok">>
    /\ pat_entries[1].pmt_pid = 256
    /\ pat_entries[2].pmt_pid = 257
    /\ ras_pid = 257
    /\ demux_open = 0

(* C16: an event of a section that is rejected for its duration (over      *)
(* 86400) or its start_time (negative) is the only one discarded: the      *)
(* events behind it in the section are parsed and returned.                *)

\* The events of the event area from `pos` on when a rejected event is
\* passed over and the event behind it is attempted.
RECURSIVE events_passing_rejected(_, _, _, _, _)
events_passing_rejected(buf, pos, events_end, service_id, events) ==
    IF ~(pos < events_end) THEN events
    ELSE LET data == Slice(buf, pos, events_end)
             r    == parse_eit_event(data, service_id)
         IN  IF r.ok
             THEN events_passing_rejected(buf, pos + r.consumed, events_end,
                                          service_id, Append(events, r.event))
             ELSE IF r.err = "unreasonable"
             THEN events_passing_rejected(
                      buf, pos + 12 + Len12(At(data, 10), At(data, 11)),
                      events_end, service_id, events)
             ELSE events

C16_NextEventAttempted ==
    (called = "parse_eit_section" /\ ret[1].kind = "ok") =>
        LET buf == arg[1].buf IN
        ret[1].events =
            events_passing_rejected(
                buf, 14, 3 + Len12(At(buf, 1), At(buf, 2)) - 4,
                U16(At(buf, 3), At(buf, 4)), <<>>)

(* C17: when the descriptors_length of an event runs past the end of the   *)
(* event area, parse_eit_section stops there and returns Ok with exactly   *)
(* the events parsed before that event, and read_events goes on with the   *)
(* sections that arrive afterwards.  OverflowSection is the one section    *)
(* of its key that the demux delivers, and its event 7 is in no other.     *)

\* The event area of OverflowSection: its first event, and the rest.
OverflowFirst == parse_eit_event(Slice(OverflowSection, 14, 38), 1)

OverflowSecond == parse_eit_event(Slice(OverflowSection, 26, 38), 1)

C17_OverflowStopsSection ==
    [][(/\ section_key(OverflowSection) \notin seen_sections
        /\ section_key(OverflowSection) \in seen_sections')
       => /\ OverflowFirst.ok /\ OverflowFirst.consumed = 12
          /\ ~OverflowSecond.ok /\ OverflowSecond.err = "truncated"
          /\ parse_eit_section(OverflowSection, overflow_checks)
                = [kind |-> "ok", err |-> "",
                   events |-> <<OverflowFirst.event>>]
          /\ all_events' = Append(all_events, OverflowFirst.event)
          /\ eit_pc' = "loop"
          /\ eit_result' = eit_result]_vars

\* read_events has returned event 7 of OverflowSection and an event of a
\* section read after it.
C17_Witness ==
    /\ eit_pc = "returned"
    /\ eit_result[1].kind = "ok"
    /\ section_key(OverflowSection) \in seen_sections
    /\ \E i \in 1..Len(all_events) :
          /\ all_events[i] = OverflowFirst.event
          /\ i < Len(all_events)
    /\ \E j \in 1..Len(eit_result[1].events) :
          eit_result[1].events[j] = OverflowFirst.event

(* C18: a section of table 0x4E whose last_section_number is over 1 is     *)
(* discarded: parse_eit_section returns an error for it and hands no       *)
(* event of it to read_events; a section of tables 0x50..0x5F is never     *)
(* refused for its last_section_number.                                    *)

C18_CorruptedDiscarded ==
    called = "parse_eit_section" =>
        LET buf == arg[1].buf IN
        /\ (At(buf, 0) = EIT_PRESENT_FOLLOWING_ACTUAL /\ At(buf, 7) > 1)
              => (ret[1].kind = "err" /\ ret[1].events = <<>>)
        /\ (/\ At(buf, 0) >= EIT_SCHEDULE_ACTUAL_MIN
            /\ At(buf, 0) <= EIT_SCHEDULE_ACTUAL_MAX)
              => ret[1].err # "corrupted"

(* C19: parse_pat_sections returns one PatEntry (service_id the            *)
(* program_number, pmt_pid the low 13 bits of the PID field) for every     *)
(* 4-byte entry of non-zero program_number of every well-formed section,   *)
(* in the order of the sections and of their entries, passes over the      *)
(* entries of program_number 0, and fails if and only if the sections      *)
(* hold no entry of non-zero program_number.                               *)

\* A section of 12 bytes or more that holds the bytes its section_length
\* counts.
PatWellFormed(data) ==
    Len(data) >= 12 /\ Len(data) >= 3 + Len12(At(data, 1), At(data, 2))

\* The k-th 4-byte entry behind the 8-byte header.
PatEntryAt(data, k) ==
    [service_id |-> At(data, 4 + 4 * k) * 256 + At(data, 5 + 4 * k),
     pmt_pid    |-> (At(data, 6 + 4 * k) % 32) * 256 + At(data, 7 + 4 * k)]

\* The whole entries between the header and the CRC, program_number 0 left
\* out.
PatEntriesOf(data) ==
    LET room == Len12(At(data, 1), At(data, 2)) - 9
        n    == IF room > 0 THEN room \div 4 ELSE 0
    IN  SelectSeq([k \in 1..n |-> PatEntryAt(data, k)],
                  LAMBDA e : e.service_id # 0)

PatEntriesIn(sections) ==
    Flatten([i \in 1..Len(sections) |->
                IF PatWellFormed(sections[i]) THEN PatEntriesOf(sections[i])
                ELSE <<>>])

C19_PatEntries ==
    called = "parse_pat_sections" =>
        ret[1] = IF PatEntriesIn(arg[1]) = <<>>
                 THEN [kind |-> "PAT: no services found", entries |-> <<>>]
                 ELSE [kind |-> "ok", entries |-> PatEntriesIn(arg[1])]

(* C20: the video_pid parse_pmt returns is the elementary PID of the first *)
(* stream, in the order of the section, whose stream_type is 0x01, 0x02,   *)
(* 0x10, 0x1B or 0x24, and the audio_pid that of the first stream whose    *)
(* stream_type is 0x03, 0x04, 0x0F or 0x11: a later stream of the kind     *)
(* never replaces the first, and the PID is 0 when there is no stream of   *)
(* the kind.                                                               *)

\* The streams of a PMT section from `pos` on, as <<stream_type,
\* elementary_pid>>, in the order of the section.
RECURSIVE PmtStreamsFrom(_, _, _)
PmtStreamsFrom(data, pos, entries_end) ==
    IF ~(pos + 5 <= entries_end) THEN <<>>
    ELSE <<<<At(data, pos),
             (At(data, pos + 1) % 32) * 256 + At(data, pos + 2)>>>>
         \o PmtStreamsFrom(
                data, pos + 5 + Len12(At(data, pos + 3), At(data, pos + 4)),
                entries_end)

PmtStreamsOf(data) ==
    PmtStreamsFrom(data, 12 + Len12(At(data, 10), At(data, 11)),
                   3 + Len12(At(data, 1), At(data, 2)) - 4)

\* The elementary PID of the first stream of a type in `types`, 0 without.
FirstPidOf(streams, types) ==
    LET of_kind == SelectSeq(streams, LAMBDA st : st[1] \in types)
    IN  IF of_kind = <<>> THEN 0 ELSE of_kind[1][2]

C20_FirstStreamWins ==
    (called = "parse_pmt" /\ ret[1].kind = "ok") =>
        /\ ret[1].info.video_pid
              = FirstPidOf(PmtStreamsOf(arg[1]), VideoStreamTypes)
        /\ ret[1].info.audio_pid
              = FirstPidOf(PmtStreamsOf(arg[1]), AudioStreamTypes)

(* C21: a corrupted section never aborts the collection: whatever the 18   *)
(* bytes or more that a read of the demux delivers (a section_length below *)
(* 4 or over the bytes read included), read_events neither panics nor      *)
(* returns an error at the read: it goes back to the head of its loop.     *)

C21_NeverAborts ==
    [][eit_pc = "read" => (eit_pc' = "loop" /\ eit_result' = eit_result)]_vars

(* C22: read_all_sections and read_events terminate: each turn of the loop *)
(* computes the time that remains anew, a poll waits no longer than the    *)
(* smaller of the time that remains and 5000 ms, no poll is made once the  *)
(* time that remains is 0 ms or less, and the call returns once the        *)
(* timeout has passed, whatever the demux delivers.                        *)

C22_LoopsTerminate ==
    /\ [](eit_pc = "poll" => elapsed < timeout_secs * 1000)
    /\ [](ras_pc = "poll" => ras_elapsed < RAS_TIMEOUT_SECS * 1000)
    /\ [][eit_pc = "poll" =>
            /\ elapsed' - elapsed <= timeout_secs * 1000 - elapsed
            /\ elapsed' - elapsed <= POLL_CAP_MS]_vars
    /\ [][ras_pc = "poll" =>
            /\ ras_elapsed' - ras_elapsed <= RAS_TIMEOUT_SECS * 1000 - ras_elapsed
            /\ ras_elapsed' - ras_elapsed <= POLL_CAP_MS]_vars
    /\ [][(eit_pc = "loop" /\ elapsed >= timeout_secs * 1000)
             => eit_pc' = "returned"]_vars
    /\ [][(ras_pc = "loop" /\ ras_elapsed >= RAS_TIMEOUT_SECS * 1000)
             => ras_pc' = "returned"]_vars
    /\ (eit_pc # "idle") ~> (eit_pc = "returned")
    /\ (ras_pc # "idle") ~> (ras_pc = "returned")

\* read_events returns at its deadline after sections it parsed and events
\* it had seen before.
C22_Witness ==
    /\ eit_pc = "returned"
    /\ timeout_secs > 0
    /\ elapsed >= timeout_secs * 1000
    /\ eit_result[1].kind = "ok"
    /\ dropped > 0

(* C23: every Channel scan_frequency returns has the service_id of its PAT *)
(* entry, the tuning parameters of entry.to_channel(), and as name the     *)
(* name the SDT gives for the service_id, or "Service <id>" when the SDT   *)
(* has no entry of the service_id.                                         *)

TuningFields ==
    {"frequency", "inversion", "bandwidth", "fec_hp", "fec_lp", "modulation",
     "transmission_mode", "guard_interval", "hierarchy"}

\* The name for `service_id`: that of the first SDT entry of the service.
SdtNameFor(services, service_id) ==
    LET of_service == SelectSeq(services, LAMBDA sv : sv[1] = service_id)
    IN  IF of_service = <<>> THEN service_label(service_id)
        ELSE text_of(of_service[1][2])

C23_ChannelJoin ==
    (scan_pc = "returned" /\ scan_result.kind = "ok") =>
        /\ Len(scan_result.channels) = Len(pat_entries)
        /\ \A i \in 1..Len(scan_result.channels) :
              LET ch == scan_result.channels[i] IN
              /\ ch.service_id = pat_entries[i].service_id
              /\ \A f \in TuningFields : ch[f] = to_channel(scan_entry[1])[f]
              /\ ch.name = SdtNameFor(sdt_services, ch.service_id)

\* Service 1 is named "TV" by the SDT and service 2 is not in the SDT.
C23_Witness ==
    /\ scan_pc = "returned"
    /\ scan_result.kind = "ok"
    /\ Len(scan_result.channels) = 2
    /\ sdt_services = <<<<1, <<84, 86>>>>>>
    /\ scan_result.channels[1].service_id = 1
    /\ scan_result.channels[1].name = <<"T", "V">>
    /\ scan_result.channels[2].service_id = 2
    /\ scan_result.channels[2].name = <<"S", "e", "r", "v", "i", "c", "e", " ", "2">>
    /\ scan_result.channels[2].frequency = scan_entry[1].frequency

(* C24: scan_frequency fails only when the PAT read times out (or fails at *)
(* the open or the poll, which is granted here) or the PAT yields no       *)
(* service: it succeeds when the SDT read fails or is empty, and           *)
(* a PMT read that times out or a PMT that does not parse gives the        *)
(* service video_pid 0 and audio_pid 0 and leaves the scan and the other   *)
(* services as they are.                                                   *)

C24_FailsOnlyOnPat ==
    scan_pc = "returned" =>
        /\ scan_result.kind # "ok" =>
              /\ scan_result.kind \in {"timeout", "open failed", "poll failed",
                                       "PAT: no services found"}
              /\ sdt_read = ""
              /\ pmt_reads = <<>>
        /\ scan_result.kind = "ok" =>
              /\ Len(scan_result.channels) = Len(pat_entries)
              /\ \A i \in 1..Len(scan_result.channels) :
                    pmt_reads[i] # "ok" =>
                        /\ scan_result.channels[i].video_pid = 0
                        /\ scan_result.channels[i].audio_pid = 0

(* C25: in a call of read_events only sections of table_id 0x4E or of      *)
(* 0x50..0x5F are parsed, and of the sections of one key (service_id,      *)
(* table_id, section_number) at most one is passed to the parser, however  *)
(* often the section is sent again.  A step that shows an effect of the    *)
(* parser (an event pushed or dropped, a key recorded, a panic) is the     *)
(* read of a section of such a table whose key was not recorded, and a     *)
(* recorded key stays recorded.                                            *)

C25_OneParsePerKey ==
    [][eit_pc = "read" =>
         /\ seen_sections \subseteq seen_sections'
         /\ (\/ all_events' # all_events
             \/ seen_events' # seen_events
             \/ dropped' # dropped
             \/ seen_sections' # seen_sections
             \/ eit_result' # eit_result)
            => \E buf \in EitDemux :
                  LET key == <<At(buf, 3) * 256 + At(buf, 4), At(buf, 0),
                               At(buf, 6)>>
                  IN  /\ Len(buf) >= 18
                      /\ key[2] = 78 \/ key[2] \in 80..95
                      /\ key \notin seen_sections
                      /\ seen_sections' = seen_sections \cup {key}
                      /\ parse_eit_section(buf, overflow_checks).kind # "ok"
                            => (all_events' = all_events /\ dropped' = dropped)]_vars

\* read_events has returned the events of sections of three keys, among
\* them events it had seen in a section of another key.
C25_Witness ==
    /\ eit_pc = "returned"
    /\ eit_result[1].kind = "ok"
    /\ Cardinality(seen_sections) >= 3
    /\ \A key \in seen_sections : key[2] = 78 \/ key[2] \in 80..95
    /\ all_events # <<>>
    /\ dropped > 0

(* C26: in the output of read_events the events of one start_time are in   *)
(* the order in which they were first accepted, and of the events of one   *)
(* (service_id, event_id) the one kept is the first received: an event of  *)
(* the key that comes later, in the same section or another, never         *)
(* replaces it.                                                            *)

EventKey(e) == <<e.service_id, e.event_id>>

EventKeys(events) == {EventKey(events[i]) : i \in 1..Len(events)}

\* The place of an event in the order of acceptance.
AcceptedAt(e) == CHOOSE k \in 1..Len(all_events) : all_events[k] = e

\* The events of `events` that are the first of their key, the keys of
\* `keys` left out, in their order.
RECURSIVE FirstOfKey(_, _)
FirstOfKey(events, keys) ==
    IF events = <<>> THEN <<>>
    ELSE IF EventKey(Head(events)) \in keys THEN FirstOfKey(Tail(events), keys)
    ELSE <<Head(events)>>
            \o FirstOfKey(Tail(events), keys \cup {EventKey(Head(events))})

C26_FirstKeptStableOrder ==
    /\ []((eit_pc = "returned" /\ eit_result[1].kind = "ok") =>
            LET out == eit_result[1].events IN
            /\ Len(out) = Len(all_events)
            /\ \A i \in 1..Len(out) : \E k \in 1..Len(all_events) : all_events[k] = out[i]
            /\ \A i, j \in 1..Len(out) :
                  (i < j /\ out[i].start_time = out[j].start_time)
                     => AcceptedAt(out[i]) < AcceptedAt(out[j]))
    /\ [][eit_pc = "read" =>
            \E buf \in EitDemux :
               LET r == parse_eit_section(buf, overflow_checks) IN
               \/ all_events' = all_events
               \/ /\ r.kind = "ok"
                  /\ all_events'
                        = all_events \o FirstOfKey(r.events, EventKeys(all_events))]_vars

\* Two events of one start_time in the output, the one accepted first in
\* front, and an event whose key came again with another start_time.
C26_Witness ==
    /\ eit_pc = "returned"
    /\ eit_result[1].kind = "ok"
    /\ dropped > 0
    /\ \E i \in 1..Len(eit_result[1].events) - 1 :
          /\ eit_result[1].events[i].start_time
                = eit_result[1].events[i + 1].start_time
          /\ AcceptedAt(eit_result[1].events[i]) > 1
    /\ \E k \in 1..Len(all_events) :
          /\ all_events[k].event_id = 1
          /\ all_events[k].service_id = 1
          /\ all_events[k].start_time = 86400

(* C27: the demux is opened anew for each PID filter and released on every *)
(* exit path: at any point of scan_frequency at most one demux handle is   *)
(* open, and none is open when read_all_sections has returned, be it with  *)
(* sections, a timeout, a poll error or a failed open or DMX_SET_FILTER;   *)
(* the frontend is opened once and every tune of the run uses that handle. *)

\* How often `word` is in the log of the frontend.
FrontendCount(word) == Cardinality({i \in 1..Len(fe_log) : fe_log[i] = word})

EitSections == {buf \in EitDemux : Len(buf) >= 18 /\ is_eit_table(At(buf, 0))}

\* The keys of the events that sections of the key `key` hold.
EventKeysUnder(key) ==
    UNION {EventKeys(parse_eit_section(buf, overflow_checks).events) :
              buf \in {b \in EitSections : section_key(b) = key}}

\* The keys of the events that no section of another key holds.
EventKeysOnlyUnder(key) ==
    EventKeysUnder(key)
       \ UNION {EventKeysUnder(section_key(b)) :
                   b \in {c \in EitSections : section_key(c) # key}}

C28_FailedParseBlocksKey ==
    /\ [](eit_pc = "read" =>
            \A buf \in EitSections :
               (/\ section_key(buf) \notin seen_sections
                /\ parse_eit_section(buf, overflow_checks).kind = "err")
               => ENABLED (/\ EitReadNew
                           /\ seen_sections' = seen_sections \cup {section_key(buf)}
                           /\ all_events' = all_events
                           /\ eit_pc' = "loop"))
    /\ [][eit_pc # "idle" =>
            /\ seen_sections \subseteq seen_sections'
            /\ \A key \in seen_sections :
                  \A e \in EventKeysOnlyUnder(key) :
                     e \notin EventKeys(all_events)
                        => e \notin EventKeys(all_events')]_vars

\* The key of the section of service 2 is recorded and its event is not in
\* the output, which holds events of other sections.
C28_Witness ==
    /\ eit_pc = "returned"
    /\ eit_result[1].kind = "ok"
    /\ <<2, 78, 0>> \in seen_sections
    /\ <<2, 1>> \in EventKeysOnlyUnder(<<2, 78, 0>>)
    /\ <<2, 1>> \notin EventKeys(eit_result[1].events)
    /\ eit_result[1].events # <<>>

(* C29: for every ScanEntry, whatever its tokens and its bandwidth, every   *)
(* enum field of entry.to_channel() is accepted by the parser of the tuner *)
(* for that field: the property array of Tuner::tune is built without an   *)
(* unknown-enum error.                                                     *)

C29_ScanChannelTunable ==
    called = "to_channel" =>
        /\ parse_bandwidth(ret[1].bandwidth)
        /\ parse_modulation(ret[1].modulation)
        /\ parse_fec(ret[1].fec_hp)
        /\ parse_fec(ret[1].fec_lp)
        /\ parse_inversion(ret[1].inversion)
        /\ parse_transmission_mode(ret[1].transmission_mode)
        /\ parse_guard_interval(ret[1].guard_interval)
        /\ parse_hierarchy(ret[1].hierarchy)
        /\ props_ok(ret[1])

\* An entry none of whose tokens is matched.
C29_Witness ==
    /\ called = "to_channel"
    /\ arg[1].bandwidth_hz = 6000001
    /\ arg[1].code_rate_hp = "FEC_2_3"
    /\ arg[1].code_rate_lp = "9/10"
    /\ arg[1].modulation = "QAM/512"
    /\ arg[1].transmission_mode = "64K"
    /\ arg[1].guard_interval = ""
    /\ arg[1].hierarchy = "8"
    /\ arg[1].inversion = ""
    /\ ret[1].modulation = <<"QAM_AUTO">>
    /\ ret[1].hierarchy = <<"HIERARCHY_NONE">>
    /\ props_ok(ret[1])

(* C30: when a Channel holds an enum string outside its vocabulary,        *)
(* Tuner::tune returns an error, submits no batch of eleven properties and *)
(* reads no status; the unknown-enum error is returned after DTV_CLEAR was *)
(* submitted, so the previous tuning of the frontend is cleared.           *)

C30_UnknownEnumAfterClear ==
    /\ []((tune_pc = "returned" /\ ~EnumsInVocab(tune_channel[1])) =>
            /\ tune_result \in {"DTV_CLEAR failed", "Unknown enum"}
            /\ reads = 0
            /\ slept_ms = 0)
    /\ []((tune_pc = "returned" /\ tune_result = "Unknown enum") =>
            /\ ~EnumsInVocab(tune_channel[1])
            /\ fe_log # <<>>
            /\ fe_log[Len(fe_log)] = "CLEAR")
    /\ [][(tune_pc # "idle" /\ ~EnumsInVocab(tune_channel[1])) =>
            /\ fe_log' \in {fe_log, Append(fe_log, "CLEAR")}
            /\ reads' = reads]_vars
    /\ [][(tune_pc # "returned" /\ tune_pc' = "returned"
                                /\ tune_result' = "Unknown enum") =>
            /\ tune_pc = "props"
            /\ fe_log' = fe_log]_vars

\* A frontend that was tuned, after the call with the modulation QAM_512.
C30_Witness ==
    /\ tune_pc = "returned"
    /\ tune_result = "Unknown enum"
    /\ tune_channel[1].modulation = <<"QAM_512">>
    /\ fe_log = <<"CLEAR", "TUNE", "CLEAR">>
    /\ reads = 0

=============================================================================
